---- MODULE Spec2Model ----
(***************************************************************************)
(* Bitget short bot: the trading cycle loop of bot.py (main, run_cycle,    *)
(* manage_trailing_stops), the persisted state of state.py, the risk      *)
(* rules of risk.py, the order placement of exchange.py and the manual    *)
(* order endpoint of api_server.py, which runs as a second process on the *)
(* same state file.                                                       *)
(*                                                                         *)
(* Prices are integers counted in units of 1e-9; round(x, 8) rounds to a   *)
(* multiple of Quantum units.  Balances and margins are integers counted   *)
(* in cents; round(x, 2) rounds to whole cents.  Arithmetic is exact: the  *)
(* representation error of binary floating point is not modelled.          *)
(* The exchange is an open environment: every read of it (balance,         *)
(* positions, plan orders, tickers, scan data) is an input drawn from a    *)
(* small set at the step that reads it.  Writes to state.json are assumed  *)
(* to succeed (the IOError branch of save_state is not modelled).          *)
(***************************************************************************)
EXTENDS Integers, Sequences, FiniteSets, TLC

\* ------------------------------------------------------------------ bounds
MaxCycles == 2          \* cycles the loop of main() is followed for
MaxApiCalls == 1        \* requests to /api/short that are followed
MaxPositions == 2       \* config["max_positions"] of the modelled deployment
MaxOps == 3             \* operations applied one after the other in SpecOps
MaxSlots == 5           \* largest max_positions a RiskManager is configured with
MaxDays == 2            \* UTC days the running process is followed over

\* ------------------------------------------------- program constants
Quantum == 10           \* round(new_sl, 8): 1e-8 is Quantum units of 1e-9
TrailingStartPct == 3
TrailingDistancePct == 2
MinStopPct == 2
MinTpPct == 5
BtcBullLimit == 5
DailyLossLimitPct == 5
MinSignals == 3
RsiClassicLimit == 70
RsiVolumeLimit == 65
FundingLimit == 10      \* 0.0001, funding rates being in units of 1e-5
EmaAloneCount == 3
MinCrossBars == 3
PositionSizePct == 50
TopN == 20
ApiBalancePct == 98

\* --------------------------------------------------------- input domains
Symbols == {"AAA", "BBB"}
Balances == {0, 50000}                  \* cents; 0 is also a failed read
EntryPrices == {1000}                   \* entry price the exchange reports
ExchStops == {0, 989, 1020}             \* stopLoss of a position; 0 = unset
ExchTargets == {0, 950}                 \* takeProfit of a position; 0 = unset
PlanStops == {0, 1020}                  \* loss_plan trigger; 0 = none pending
OpsStops == {0, 989}                    \* ... in the runs of single operations
PlanTargets == {0, 950}                 \* profit_plan trigger; 0 = none pending
NoTicker == -1                          \* get_ticker returned None
TrailTickers == {NoTicker, 940, 968, 1000}  \* ticker read by the trailing loop
OrderTickers == {NoTicker, 1000}        \* ticker read by run_cycle step 8
FillTickers == {NoTicker, 1000, 1070}   \* ticker read again by open_short
AtrPcts == {4}
SignalCounts == {2, 3}
RsiValues == {60, 75}
BtcChanges == {0, 2, 5}
PriceTick == 2 * Quantum                \* the market's price precision
CalcBalances == {-100, 0, 9400, 9499, 9500, 9501, 10000, 10100}  \* cents
CalcSizes == {0, 33333, 50001, 100000}  \* cents given to calculate_position_size
CalcPcts == {50, 100}                   \* config["position_size_pct"]
CalcEntries == (1..30) \cup {1000, 1004} \* entry prices given to calculate_sl_tp
CalcAtrPcts == {0, 4, 10, 60}
NoFunding == -1000000                   \* get_funding_rate returned None
CalcRsis == {50, 65, 66, 70, 71}        \* RSI given to the strategies
CalcFundings == {NoFunding, -5, 0, 10, 11}  \* funding rates, units of 1e-5
CrossValues == {1, 2, 3}                \* values of an EMA, MACD or signal line
CrossBars == {3, 4}                     \* bars of the series given to a cross test
CalcPlanTargets == {0, 940}             \* profit_plan triggers given to the backfill
CalcPlanStops == {0, 1030}              \* loss_plan triggers given to the backfill
CalcTrackedTargets == {0, 960}          \* take_profit of a tracked position
CalcTrackedStops == {0, 1060}           \* stop_loss of a tracked position
CalcTrackedTrails == {0, 1040, 1060}    \* current_sl of a tracked position
CalcTrailEntries == {100, 1000}             \* entry prices given to calculate_trailing_stop
CalcTrailPrices == {90, 91, 94, 96, 97, 100, 900, 940, 950, 960, 968, 970, 971, 1000, 1010}
CalcTrailStops == {93, 95, 100, 110, 960, 989, 990, 1000, 1020}  \* its current_sl
CalcStartPcts == {1, 3}                     \* config["trailing_start_pct"]
CalcDistancePcts == {2, 5}                  \* config["trailing_distance_pct"]
RaceSymbols == {"AAA", "BBB", "CCC", "DDD"} \* symbols of the exchange in SpecRace
RankSymbols == {"AAA", "BBB", "CCC"}    \* symbols given to the ranking
RankSignals == {2, 3, 4}                \* their signal counts
RankTops == {1, 2, TopN}                \* lengths the ranking is cut to

NoUpdate == -1                          \* calculate_trailing_stop returned None

\* ------------------------------------------------------------ arithmetic
Max(a, b) == IF a >= b THEN a ELSE b

\* num/den (both >= 0, den > 0) rounded to the nearest multiple of q, a tie
\* going to the even multiple, as Python's round() does.
RoundTo(num, den, q) ==
    LET k == num \div (den * q)
        r == num - k * den * q
    IN  IF 2 * r < den * q THEN k * q
        ELSE IF 2 * r > den * q THEN (k + 1) * q
        ELSE IF k % 2 = 0 THEN k * q ELSE (k + 1) * q

\* ccxt price_to_precision: the price rounded to the market's tick.
price_to_precision(price) == RoundTo(price, 1, PriceTick)

\* ------------------------------------------------------------------ risk
\* A faulty variant of trailing_stop: a candidate equal to current_sl is
\* returned too.  TrailingStopAsSpecified tells it from the code.
trailing_stop_or_equal(entry_price, current_price, current_sl, start_pct, distance_pct) ==
    LET profit100 == (entry_price - current_price) * 100
        locked100 == profit100 - distance_pct * entry_price
        num == IF locked100 <= 0 THEN entry_price * 100
               ELSE entry_price * 100 - locked100
    IN  IF profit100 < start_pct * entry_price THEN NoUpdate
        ELSE IF num <= current_sl * 100 THEN RoundTo(num, 100, Quantum)
        ELSE NoUpdate

\* calculate_trailing_stop of a RiskManager configured with the two
\* percentages.  None when the profit has not reached trailing_start_pct or
\* the candidate is not below current_sl; otherwise the candidate rounded to
\* 8 decimals.  profit_pct = (entry - cur) / entry * 100, compared without
\* dividing.
trailing_stop(entry_price, current_price, current_sl, start_pct, distance_pct) ==
    LET profit100 == (entry_price - current_price) * 100   \* profit_pct * entry
        locked100 == profit100 - distance_pct * entry_price
        \* new_sl as the fraction num/100
        num == IF locked100 <= 0 THEN entry_price * 100
               ELSE entry_price * 100 - locked100
    IN  IF profit100 < start_pct * entry_price THEN NoUpdate
        ELSE IF num < current_sl * 100 THEN RoundTo(num, 100, Quantum)
        ELSE NoUpdate

\* ... with the percentages of the modelled deployment.
calculate_trailing_stop(entry_price, current_price, current_sl) ==
    trailing_stop(entry_price, current_price, current_sl,
                  TrailingStartPct, TrailingDistancePct)

\* A faulty variant of check_daily_loss: a loss of exactly the limit passes.
\* DailyLossFailsExactly tells it from the code.
check_daily_loss_strict(start_balance, current_balance) ==
    IF start_balance <= 0 THEN FALSE
    ELSE IF (start_balance - current_balance) * 100 > DailyLossLimitPct * start_balance
    THEN FALSE
    ELSE TRUE

\* check_daily_loss: whether the day's loss is defined and below the limit.
\* loss_pct = (start - current) / start * 100, compared without dividing.
check_daily_loss(start_balance, current_balance) ==
    IF start_balance <= 0 THEN FALSE
    ELSE IF (start_balance - current_balance) * 100 >= DailyLossLimitPct * start_balance
    THEN FALSE
    ELSE TRUE

check_btc_trend(btc_24h_change) == btc_24h_change < BtcBullLimit

check_position_count(open_positions) == open_positions < MaxPositions

\* What get_ticker("BTC/USDT:USDT") returns: None, or a ticker with its 24h
\* change in percent.
NoBtcTicker == [fetched |-> FALSE, percentage |-> 0]

BtcTickers == {NoBtcTicker} \cup [fetched : {TRUE}, percentage : BtcChanges]

\* A faulty variant of get_btc_24h_change: without a ticker the change is
\* taken to be at the limit.  BtcReadFailurePasses tells it from the code.
get_btc_24h_change_at_limit(ticker) ==
    IF ticker.fetched THEN ticker.percentage ELSE BtcBullLimit

\* get_btc_24h_change: the ticker's percentage, 0.0 without a ticker.
get_btc_24h_change(ticker) ==
    IF ticker.fetched THEN ticker.percentage ELSE 0

\* The list of (check, passed) that run_all_checks builds, in its order.
run_all_checks(btc_24h_change, blackout, open_positions) ==
    << [check |-> "btc_trend", passed |-> check_btc_trend(btc_24h_change)],
       [check |-> "news_blackout", passed |-> ~blackout],
       [check |-> "position_count", passed |-> check_position_count(open_positions)] >>

AllPassed(reasons) == \A i \in 1..Len(reasons) : reasons[i].passed

\* A faulty variant of position_size: the balance is shared among the free
\* slots.  PositionSizeAsSpecified tells it from the code.
position_size_by_slots(balance, open_positions, max_positions, position_size_pct) ==
    LET slots == max_positions - open_positions
    IN  IF slots <= 0 THEN 0
        ELSE RoundTo(balance * position_size_pct, 100 * slots, 1)

\* calculate_position_size of a RiskManager configured with max_positions and
\* position_size_pct: margin in cents for a new position, 0 when no slot is
\* left.
position_size(balance, open_positions, max_positions, position_size_pct) ==
    LET slots == max_positions - open_positions
    IN  IF slots <= 0 THEN 0
        ELSE RoundTo(balance * position_size_pct, 100 * max_positions, 1)

\* ... of the RiskManager of the modelled deployment.
calculate_position_size(balance, open_positions) ==
    position_size(balance, open_positions, MaxPositions, PositionSizePct)

\* ---------------------------------------------------------------- strategy
\* <<stop_loss, take_profit>> for a short entered at entry_price.
\* sl_pct = max(min_stop_pct, 1.5 * atr), tp_pct = max(min_tp_pct, 0.1 * atr),
\* kept as the fractions slNum/2 and tpNum/10 percent.
calculate_sl_tp(entry_price, atr_pct) ==
    LET slNum == Max(2 * MinStopPct, 3 * atr_pct)
        tpNum == Max(10 * MinTpPct, atr_pct)
    IN  << RoundTo(entry_price * (200 + slNum), 200, Quantum),
           RoundTo(entry_price * (1000 - tpNum), 1000, Quantum) >>

\* calculate_ema_cross on the two EMA series: the fast one is below the slow
\* one at the last bar and was not at the bar before, or the same one bar
\* earlier.
calculate_ema_cross_now(fast_values, slow_values) ==
    LET n == Len(fast_values)
    IN  IF n < MinCrossBars THEN FALSE
        ELSE fast_values[n] < slow_values[n] /\ fast_values[n - 1] >= slow_values[n - 1]

calculate_ema_cross(fast_values, slow_values) ==
    LET n == Len(fast_values)
    IN  IF n < MinCrossBars THEN FALSE
        ELSE LET cross_now == /\ fast_values[n] < slow_values[n]
                              /\ fast_values[n - 1] >= slow_values[n - 1]
                 cross_prev == /\ fast_values[n - 1] < slow_values[n - 1]
                               /\ fast_values[n - 2] >= slow_values[n - 2]
             IN  cross_now \/ cross_prev

\* calculate_macd_cross on the MACD line and its signal line.
calculate_macd_cross(macd_line, signal_line) ==
    LET n == Len(macd_line)
    IN  IF n < MinCrossBars THEN FALSE
        ELSE LET cross_now == /\ macd_line[n] < signal_line[n]
                              /\ macd_line[n - 1] >= signal_line[n - 1]
                 cross_prev == /\ macd_line[n - 1] < signal_line[n - 1]
                               /\ macd_line[n - 2] >= signal_line[n - 2]
             IN  cross_now \/ cross_prev

FundingSignal(funding_rate) ==
    funding_rate # NoFunding /\ funding_rate > FundingLimit

\* analyze_classic, given the indicators it computes from the candles: the
\* signals that fired and their count.
analyze_classic(rsi, ema_cross, macd_cross, funding_rate) ==
    LET signals == (IF rsi > RsiClassicLimit THEN {"RSI"} ELSE {})
                   \cup (IF ema_cross THEN {"EMA_CROSS"} ELSE {})
                   \cup (IF macd_cross THEN {"MACD_CROSS"} ELSE {})
                   \cup (IF FundingSignal(funding_rate) THEN {"FUNDING"} ELSE {})
    IN  [signals |-> signals, signal_count |-> Cardinality(signals), rsi |-> rsi]

\* A faulty variant of analyze_volume: the count is raised to 3 only when the
\* EMA crossover is the only signal.  SignalCountAsSpecified tells it from
\* the code.
analyze_volume_alone(rsi, ema_cross, volume_spike, funding_rate) ==
    LET signals == (IF rsi > RsiVolumeLimit THEN {"RSI"} ELSE {})
                   \cup (IF ema_cross THEN {"EMA_CROSS"} ELSE {})
                   \cup (IF volume_spike THEN {"VOL_SPIKE"} ELSE {})
                   \cup (IF FundingSignal(funding_rate) THEN {"FUNDING"} ELSE {})
        actual_count == Cardinality(signals)
    IN  [signals |-> signals,
         signal_count |-> IF ema_cross /\ actual_count < 2
                          THEN EmaAloneCount ELSE actual_count,
         rsi |-> rsi]

\* analyze_volume: an EMA crossover with fewer than 3 signals counts as 3.
analyze_volume(rsi, ema_cross, volume_spike, funding_rate) ==
    LET signals == (IF rsi > RsiVolumeLimit THEN {"RSI"} ELSE {})
                   \cup (IF ema_cross THEN {"EMA_CROSS"} ELSE {})
                   \cup (IF volume_spike THEN {"VOL_SPIKE"} ELSE {})
                   \cup (IF FundingSignal(funding_rate) THEN {"FUNDING"} ELSE {})
        actual_count == Cardinality(signals)
    IN  [signals |-> signals,
         signal_count |-> IF ema_cross /\ actual_count < EmaAloneCount
                          THEN EmaAloneCount ELSE actual_count,
         rsi |-> rsi]

\* ------------------------------------------------------------------- state
NoPos == [order_id |-> "none", entry_price |-> 0, margin_usdt |-> 0,
          stop_loss |-> 0, take_profit |-> 0, current_sl |-> 0]

NoExch == [side |-> "none", entry_price |-> 0, margin |-> 0,
           take_profit |-> 0, stop_loss |-> 0]

LongExch == [side |-> "long", entry_price |-> 1000, margin |-> 5000,
             take_profit |-> 0, stop_loss |-> 0]

ShortExch == [side : {"short"}, entry_price : EntryPrices, margin : {5000},
              take_profit : ExchTargets, stop_loss : ExchStops]

\* What get_open_positions returns is, per symbol, no position, a long or a
\* short; the all-empty snapshot is also what a failed fetch returns.  The
\* shorts the cycle loop is followed with: one without TP/SL, one with a stop
\* given to nine decimals, one with a stop on the bot's grid.
CycleShorts == {x \in ShortExch :
                  \/ x.take_profit = 0 /\ x.stop_loss = 0
                  \/ x.take_profit # 0 /\ x.stop_loss # 0}

CycleSnapshots == [Symbols -> {NoExch, LongExch} \cup CycleShorts]

NoPlan == [tp |-> 0, sl |-> 0]

\* What get_tp_sl_for_symbol returns for each symbol in the cycle loop: no
\* plan order, or both pending.
CyclePlans == [Symbols -> {x \in [tp : PlanTargets, sl : PlanStops] :
                              (x.tp = 0) = (x.sl = 0)}]

get_default_state(day) ==
    [start_balance |-> 0, day_start_utc |-> day,
     positions |-> [s \in Symbols |-> NoPos],
     trades_today |-> 0, daily_pnl |-> 0, total_trades |-> 0,
     total_wins |-> 0, total_losses |-> 0, total_pnl |-> 0,
     last_cycle_time |-> 0]

NoOrder == [symbol |-> "none", order_id |-> "none", entry_price |-> 0,
            margin_usdt |-> 0, stop_loss |-> 0, take_profit |-> 0]

NoFile == [exists |-> FALSE, content |-> get_default_state(0)]

Tracked(st) == {s \in Symbols : st.positions[s] # NoPos}

Shorts(snap) == {s \in Symbols : snap[s].side = "short"}

\* load_state: the default state when there is no file, else the file's
\* content, with the daily counters reset when the day has changed.
load_state(file, day) ==
    IF ~file.exists THEN get_default_state(day)
    ELSE IF file.content.day_start_utc # day
         THEN [file.content EXCEPT !.day_start_utc = day, !.start_balance = 0,
                                   !.trades_today = 0, !.daily_pnl = 0]
         ELSE file.content

\* save_state: the state as it is after the call (last_cycle_time stamped);
\* the file then holds exactly this record.
save_state(st, t) == [st EXCEPT !.last_cycle_time = t]

FileOf(st) == [exists |-> TRUE, content |-> st]

\* A faulty variant of add_position: current_sl is left unset.
\* ScenarioOpensTopRanked tells it from the code.
add_position_untrailed(st, position, t) ==
    save_state([st EXCEPT !.positions[position.symbol] =
                              [order_id |-> position.order_id,
                               entry_price |-> position.entry_price,
                               margin_usdt |-> position.margin_usdt,
                               stop_loss |-> position.stop_loss,
                               take_profit |-> position.take_profit,
                               current_sl |-> 0],
                          !.trades_today = @ + 1,
                          !.total_trades = @ + 1], t)

\* add_position, its save included.
add_position(st, position, t) ==
    save_state([st EXCEPT !.positions[position.symbol] =
                              [order_id |-> position.order_id,
                               entry_price |-> position.entry_price,
                               margin_usdt |-> position.margin_usdt,
                               stop_loss |-> position.stop_loss,
                               take_profit |-> position.take_profit,
                               current_sl |-> position.stop_loss],
                          !.trades_today = @ + 1,
                          !.total_trades = @ + 1], t)

\* A faulty variant of remove_position: a position removed without a profit
\* is counted as a loss.  RemovalLeavesCountersAndOthers tells it from the
\* code.
remove_position_as_loss(st, symbol, pnl, t) ==
    IF symbol \notin Tracked(st) THEN st
    ELSE save_state([st EXCEPT !.positions[symbol] = NoPos,
                               !.daily_pnl = @ + pnl,
                               !.total_pnl = @ + pnl,
                               !.total_wins = IF pnl > 0 THEN @ + 1 ELSE @,
                               !.total_losses = IF pnl <= 0 THEN @ + 1 ELSE @], t)

\* remove_position, its save included; a symbol not tracked changes nothing.
remove_position(st, symbol, pnl, t) ==
    IF symbol \notin Tracked(st) THEN st
    ELSE save_state([st EXCEPT !.positions[symbol] = NoPos,
                               !.daily_pnl = @ + pnl,
                               !.total_pnl = @ + pnl,
                               !.total_wins = IF pnl > 0 THEN @ + 1 ELSE @,
                               !.total_losses = IF pnl < 0 THEN @ + 1 ELSE @], t)

\* Whether get_tp_sl_for_symbol is called: a take-profit or a stop-loss is
\* still unset.
PlanQueried(tp_price, sl_price) == tp_price = 0 \/ sl_price = 0

\* A faulty variant of AdoptPosition: a pending plan order is preferred to the
\* position's own field.  AdoptTakesFieldsFirst tells it from the code.
AdoptPositionPlanFirst(pos, plan) ==
    LET consult == PlanQueried(pos.take_profit, pos.stop_loss)
        tp_price == IF consult /\ plan.tp # 0 THEN plan.tp ELSE pos.take_profit
        sl_price == IF consult /\ plan.sl # 0 THEN plan.sl ELSE pos.stop_loss
    IN  [order_id |-> "unknown", entry_price |-> pos.entry_price,
         margin_usdt |-> pos.margin, stop_loss |-> sl_price,
         take_profit |-> tp_price, current_sl |-> sl_price]

\* ---------------------------------------------------------- reconciliation
\* The tracked record of a short found on the exchange and not in the state:
\* TP/SL from the position's fields, else from the pending plan orders, which
\* are fetched only when one of the two fields is unset.
AdoptPosition(pos, plan) ==
    LET consult == PlanQueried(pos.take_profit, pos.stop_loss)
        tp_price == IF pos.take_profit = 0 /\ consult /\ plan.tp # 0
                    THEN plan.tp ELSE pos.take_profit
        sl_price == IF pos.stop_loss = 0 /\ consult /\ plan.sl # 0
                    THEN plan.sl ELSE pos.stop_loss
    IN  [order_id |-> "unknown", entry_price |-> pos.entry_price,
         margin_usdt |-> pos.margin, stop_loss |-> sl_price,
         take_profit |-> tp_price, current_sl |-> sl_price]

\* A faulty variant of BackfillFromFields: the position's take-profit replaces
\* the tracked one.  BackfillKeepsKnownValues tells it from the code.
BackfillFromFieldsOver(tracked, pos) ==
    LET t1 == IF pos.take_profit # 0
              THEN [tracked EXCEPT !.take_profit = pos.take_profit]
              ELSE tracked
    IN  IF t1.stop_loss = 0 /\ pos.stop_loss # 0
        THEN [t1 EXCEPT !.stop_loss = pos.stop_loss,
                        !.current_sl = IF @ = 0 THEN pos.stop_loss ELSE @]
        ELSE t1

\* A faulty variant of BackfillFromFields: current_sl is filled one run after
\* stop_loss.  SyncAgainKeepsAllButStamp tells it from the code.
BackfillFromFieldsLate(tracked, pos) ==
    LET t1 == IF tracked.take_profit = 0 /\ pos.take_profit # 0
              THEN [tracked EXCEPT !.take_profit = pos.take_profit]
              ELSE tracked
    IN  IF t1.stop_loss = 0 /\ pos.stop_loss # 0
        THEN [t1 EXCEPT !.stop_loss = pos.stop_loss]
        ELSE IF t1.current_sl = 0 /\ pos.stop_loss # 0
        THEN [t1 EXCEPT !.current_sl = pos.stop_loss]
        ELSE t1

\* A tracked position with a zero TP or SL, after the position's fields have
\* been tried.
BackfillFromFields(tracked, pos) ==
    LET t1 == IF tracked.take_profit = 0 /\ pos.take_profit # 0
              THEN [tracked EXCEPT !.take_profit = pos.take_profit]
              ELSE tracked
    IN  IF t1.stop_loss = 0 /\ pos.stop_loss # 0
        THEN [t1 EXCEPT !.stop_loss = pos.stop_loss,
                        !.current_sl = IF @ = 0 THEN pos.stop_loss ELSE @]
        ELSE t1

\* A faulty variant of BackfillFromPlan: a stop-loss plan is not used when a
\* take-profit plan was.  BackfillFillsWhatIsSupplied tells it from the code.
BackfillFromPlanOnce(tracked, plan) ==
    IF ~PlanQueried(tracked.take_profit, tracked.stop_loss) THEN tracked
    ELSE IF plan.tp # 0 /\ tracked.take_profit = 0
         THEN [tracked EXCEPT !.take_profit = plan.tp]
         ELSE IF plan.sl # 0 /\ tracked.stop_loss = 0
         THEN [tracked EXCEPT !.stop_loss = plan.sl,
                              !.current_sl = IF @ = 0 THEN plan.sl ELSE @]
         ELSE tracked

\* ... and after the plan orders have been tried for what is still unset.
BackfillFromPlan(tracked, plan) ==
    IF ~PlanQueried(tracked.take_profit, tracked.stop_loss) THEN tracked
    ELSE LET t1 == IF plan.tp # 0 /\ tracked.take_profit = 0
                   THEN [tracked EXCEPT !.take_profit = plan.tp]
                   ELSE tracked
         IN  IF plan.sl # 0 /\ t1.stop_loss = 0
             THEN [t1 EXCEPT !.stop_loss = plan.sl,
                             !.current_sl = IF @ = 0 THEN plan.sl ELSE @]
             ELSE t1

BackfillPosition(tracked, pos, plan) ==
    IF tracked.take_profit # 0 /\ tracked.stop_loss # 0 THEN tracked
    ELSE BackfillFromPlan(BackfillFromFields(tracked, pos), plan)

RECURSIVE RemoveClosed(_, _, _)
RemoveClosed(st, closed, t) ==
    IF closed = {} THEN st
    ELSE LET symbol == CHOOSE x \in closed : TRUE
         IN  RemoveClosed(remove_position(st, symbol, 0, t), closed \ {symbol}, t)

\* A faulty variant of sync_positions_with_exchange: positions closed on the
\* exchange stay tracked.  SyncTracksExactlyTheShorts tells it from the code.
sync_without_removal(st, snap, plans, t) ==
    LET exchange_symbols == Shorts(snap)
        state_symbols == Tracked(st)
        synced == [s \in Symbols |->
                     IF s \in exchange_symbols \ state_symbols
                     THEN AdoptPosition(snap[s], plans[s])
                     ELSE IF s \in exchange_symbols \cap state_symbols
                     THEN BackfillPosition(st.positions[s], snap[s], plans[s])
                     ELSE st.positions[s]]
    IN  save_state([st EXCEPT !.positions = synced], t)

\* sync_positions_with_exchange, its final save included.
sync_positions_with_exchange(st, snap, plans, t) ==
    LET exchange_symbols == Shorts(snap)
        state_symbols == Tracked(st)
        st1 == RemoveClosed(st, state_symbols \ exchange_symbols, t)
        synced == [s \in Symbols |->
                     IF s \in exchange_symbols \ state_symbols
                     THEN AdoptPosition(snap[s], plans[s])
                     ELSE IF s \in exchange_symbols \cap state_symbols
                     THEN BackfillPosition(st1.positions[s], snap[s], plans[s])
                     ELSE st1.positions[s]]
    IN  save_state([st1 EXCEPT !.positions = synced], t)

\* ------------------------------------------------------------ trailing stop
\* Whether the loop body of manage_trailing_stops gets as far as reading the
\* ticker for this exchange position.
TrailConsiders(st, symbol, pos) ==
    /\ pos.side = "short"
    /\ symbol \in Tracked(st)
    /\ st.positions[symbol].entry_price > 0
    /\ st.positions[symbol].current_sl > 0

\* A faulty variant of TrailNewStop: a position without a current_sl gets
\* the trailing stop as its first stop.
\* UnsetStopSkippedByTrailing tells it from the code.
TrailNewStopFromUnset(st, symbol, pos, ticker) ==
    IF ~(pos.side = "short" /\ symbol \in Tracked(st)
         /\ st.positions[symbol].entry_price > 0) THEN NoUpdate
    ELSE calculate_trailing_stop(st.positions[symbol].entry_price,
                                 IF ticker = NoTicker THEN pos.entry_price ELSE ticker,
                                 IF st.positions[symbol].current_sl > 0
                                 THEN st.positions[symbol].current_sl
                                 ELSE 2 * st.positions[symbol].entry_price)

\* The stop the loop body computes: NoUpdate or the new stop-loss price.
TrailNewStop(st, symbol, pos, ticker) ==
    IF ~TrailConsiders(st, symbol, pos) THEN NoUpdate
    ELSE calculate_trailing_stop(st.positions[symbol].entry_price,
                                 IF ticker = NoTicker THEN pos.entry_price ELSE ticker,
                                 st.positions[symbol].current_sl)

\* The state after the loop body: current_sl is replaced and saved only when
\* a new stop was computed and update_stop_loss reported success.
TrailSaves(st, symbol, pos, ticker, success) ==
    TrailNewStop(st, symbol, pos, ticker) # NoUpdate /\ success

\* A faulty variant of TrailPosition: the computed stop is recorded and saved
\* whatever update_stop_loss returned.
\* StopRecordedOnlyWhenConfirmed tells it from the code.
TrailPositionUnconfirmed(st, symbol, pos, ticker, success, t) ==
    LET new_sl == TrailNewStop(st, symbol, pos, ticker)
    IN  IF new_sl # NoUpdate
        THEN save_state([st EXCEPT !.positions[symbol].current_sl = new_sl], t)
        ELSE st

TrailPosition(st, symbol, pos, ticker, success, t) ==
    LET new_sl == TrailNewStop(st, symbol, pos, ticker)
    IN  IF TrailSaves(st, symbol, pos, ticker, success)
        THEN save_state([st EXCEPT !.positions[symbol].current_sl = new_sl], t)
        ELSE st

\* No call of update_stop_loss.
NoRequest == [symbol |-> "none", price |-> 0, success |-> FALSE]

\* The call of update_stop_loss the loop body makes, with what it returned.
TrailRequest(st, symbol, pos, ticker, success) ==
    IF TrailNewStop(st, symbol, pos, ticker) = NoUpdate THEN NoRequest
    ELSE [symbol |-> symbol, price |-> TrailNewStop(st, symbol, pos, ticker),
          success |-> success]

\* --------------------------------------------------------------- exchange
\* The position open_short returns for an accepted order; the entry price is
\* the ticker read inside open_short, the stops are rounded to the tick.
open_short(symbol, amount_usdt, stop_loss_price, take_profit_price, fill) ==
    [symbol |-> symbol, order_id |-> "order", entry_price |-> fill,
     margin_usdt |-> amount_usdt,
     stop_loss |-> price_to_precision(stop_loss_price),
     take_profit |-> price_to_precision(take_profit_price)]

\* The position open_short_tp_only returns: no stop-loss at all.
open_short_tp_only(symbol, amount_usdt, take_profit_price, fill) ==
    [symbol |-> symbol, order_id |-> "order", entry_price |-> fill,
     margin_usdt |-> amount_usdt,
     stop_loss |-> 0, take_profit |-> price_to_precision(take_profit_price)]

\* The order of api_short for a request that passes its checks: 98% of the
\* balance as margin, the take-profit of calculate_sl_tp, no stop-loss.
api_short_order(symbol, balance, atr_pct, entry_price, fill) ==
    open_short_tp_only(symbol, RoundTo(balance * ApiBalancePct, 100, 1),
                       calculate_sl_tp(entry_price, atr_pct)[2], fill)

\* The order of run_cycle's step 8 for the same balance and prices.
run_cycle_order(symbol, balance, open_positions, atr_pct, entry_price, fill) ==
    LET margin == calculate_position_size(balance, open_positions)
        sl_tp == calculate_sl_tp(entry_price, atr_pct)
    IN  open_short(symbol, margin, sl_tp[1], sl_tp[2], fill)

\* The position run_cycle builds in dry-run mode instead of placing an order.
DryRunPosition(symbol, entry_price, margin, sl_price, tp_price) ==
    [symbol |-> symbol, order_id |-> "dry-run", entry_price |-> entry_price,
     margin_usdt |-> margin,
     stop_loss |-> sl_price, take_profit |-> tp_price]

\* =================================================================== state
VARIABLES
    pc,                 \* where main() is: a step of run_cycle, or between cycles
    state,              \* the bot process's state dict
    disk,               \* state.json
    now,                \* time.time()
    today,              \* the UTC day
    dry_run,            \* "--dry-run" in sys.argv
    cycle,              \* cycles started so far
    current_balance,    \* run_cycle's current_balance
    exchange_positions, \* run_cycle's exchange_positions
    todo,               \* positions manage_trailing_stops has still to visit
    reasons,            \* run_cycle's reasons, as (check, passed) records
    all_safe,           \* run_cycle's all_safe
    scan_results,       \* run_cycle's scan_results
    outcome,            \* run_cycle's outcome
    log,                \* history: the steps this cycle has completed, in order
    orders,             \* history: open_short calls made in this cycle
    safety,             \* history: what this cycle's safety checks came to
    result,             \* history: how this cycle ended
    prev_result,        \* history: how the previous cycle ended
    interrupted,        \* history: where a KeyboardInterrupt arrived
    writers,            \* history: the processes that have written state.json
    api_pc,             \* where the /api/short handler is
    api_state,          \* the handler's state dict
    api_position,       \* the position the handler's order returned
    api_calls,          \* requests handled so far
    plan_orders,        \* SpecOps: the plan orders given to the last sync
    ops,                \* SpecOps: operations applied so far
    last_op,            \* SpecOps: the last operation applied
    prev_state,         \* SpecOps: the state before the last operation
    last_price,         \* SpecOps: per symbol, the last trailing call's price
    balance_calls,      \* history: this cycle's balance reads and market reloads
    call,               \* SpecCalc: the last function call, its arguments and result
    held,               \* run_cycle: symbols short on the exchange when positions were fetched
    stop_updates,       \* manage_trailing_stops: update_stop_loss calls of the running call
    stop_request,       \* manage_trailing_stops: the update_stop_loss call of the last pass
    kept_sl,            \* SpecOps: per symbol, the last current_sl tracked since the short opened
    open_on_exchange,   \* SpecRace: the symbols with an open short on the exchange
    seen                \* SpecRace: what get_open_positions returned to each process

vars == << pc, state, disk, now, today, dry_run, cycle, current_balance,
           exchange_positions, todo, reasons, all_safe, scan_results, outcome,
           log, orders, safety, result, prev_result, interrupted, writers,
           api_pc, api_state, api_position, api_calls,
           plan_orders, ops, last_op, prev_state, last_price,
           balance_calls, call, held, stop_updates, stop_request,
           kept_sl, open_on_exchange, seen >>

NoSnapshot == [s \in Symbols |-> NoExch]
NoPlans == [s \in Symbols |-> NoPlan]
NoCall == [fn |-> "none", args |-> << >>, out |-> << >>]
NoPrices == [s \in Symbols |-> [price |-> 0, applied |-> FALSE]]

InCycle == {"balance", "sync", "trail", "scan", "execute", "final"}

open_short_count == Cardinality(Shorts(exchange_positions))

\* What is the same at the start of every run that is followed.
InitCommon ==
    /\ today = 1
    /\ now = 1
    /\ disk = NoFile
    /\ dry_run \in BOOLEAN
    /\ cycle = 1
    /\ current_balance = 0
    /\ exchange_positions = NoSnapshot
    /\ todo = {}
    /\ reasons = << >>
    /\ all_safe = FALSE
    /\ scan_results = << >>
    /\ outcome = ""
    /\ log = << >>
    /\ orders = 0
    /\ safety = "unknown"
    /\ result = "running"
    /\ prev_result = "none"
    /\ interrupted = "no"
    /\ writers = {}
    /\ api_pc = "idle"
    /\ api_state = get_default_state(0)
    /\ api_position = NoOrder
    /\ api_calls = 0
    /\ plan_orders = NoPlans
    /\ ops = 0
    /\ last_op = "none"
    /\ prev_state = get_default_state(0)
    /\ last_price = NoPrices
    /\ balance_calls = << >>
    /\ call = NoCall
    /\ held = {}
    /\ stop_updates = 0
    /\ stop_request = NoRequest
    /\ kept_sl = [s \in Symbols |-> 0]
    /\ seen = [bot |-> {}, api |-> {}]

\* main() up to the loop: state = load_state(); nothing has been written yet.
Init ==
    /\ InitCommon
    /\ pc = "balance"
    /\ state = load_state(disk, today)
    /\ open_on_exchange = {}

\* ------------------------------------------------------------- run_cycle
\* What balance_calls records of a call of get_balance and of load_markets.
BalanceRead(value) == [call |-> "get_balance", value |-> value]

MarketReload == [call |-> "load_markets", value |-> 0]

\* Step 1: the balance, read again once after load_markets() when the first
\* read is not positive; start_balance is set when it is not yet.
StepBalance ==
    /\ pc = "balance"
    /\ \E first \in Balances, second \in Balances :
         LET balance == IF first <= 0 THEN second ELSE first
         IN  /\ current_balance' = balance
             /\ state' = IF balance > 0 /\ state.start_balance <= 0
                         THEN [state EXCEPT !.start_balance = balance]
                         ELSE state
             /\ balance_calls' =
                  IF first <= 0
                  THEN << BalanceRead(first), MarketReload, BalanceRead(second) >>
                  ELSE << BalanceRead(first) >>
    /\ log' = Append(log, "balance")
    /\ pc' = "sync"
    /\ UNCHANGED << disk, now, today, dry_run, cycle, exchange_positions, todo,
                    reasons, all_safe, scan_results, outcome, orders, safety,
                    result, prev_result, interrupted, writers, api_pc, api_state,
                    api_position, api_calls, plan_orders, ops, last_op,
                    prev_state, last_price, call, held, stop_updates,
                    stop_request, kept_sl, open_on_exchange, seen >>

\* Step 2: get_open_positions and sync_positions_with_exchange.
StepSync ==
    /\ pc = "sync"
    /\ \E open \in CycleSnapshots, plans \in CyclePlans :
         \E snap \in {open, NoSnapshot} :
           /\ held' = Shorts(open)
           /\ exchange_positions' = snap
           /\ state' = sync_positions_with_exchange(state, snap, plans, now)
           /\ todo' = {s \in Symbols : snap[s].side # "none"}
    /\ disk' = FileOf(state')
    /\ writers' = writers \cup {"bot"}
    /\ log' = Append(log, "sync")
    /\ pc' = "trail"
    /\ UNCHANGED << now, today, dry_run, cycle, current_balance, reasons,
                    all_safe, scan_results, outcome, orders, safety, result,
                    prev_result, interrupted, api_pc, api_state, api_position,
                    api_calls, plan_orders, ops, last_op, prev_state, last_price,
                    balance_calls, call, stop_updates, stop_request, kept_sl,
                    open_on_exchange, seen >>

\* Step 3, one pass of the loop of manage_trailing_stops.
StepTrail ==
    /\ pc = "trail"
    /\ \E symbol \in todo, ticker \in TrailTickers, success \in BOOLEAN :
         /\ state' = TrailPosition(state, symbol, exchange_positions[symbol],
                                   ticker, success, now)
         /\ todo' = todo \ {symbol}
         /\ stop_updates' =
              IF TrailNewStop(state, symbol, exchange_positions[symbol], ticker)
                 # NoUpdate
              THEN stop_updates + 1 ELSE stop_updates
         /\ stop_request' = TrailRequest(state, symbol, exchange_positions[symbol],
                                         ticker, success)
         /\ IF TrailSaves(state, symbol, exchange_positions[symbol], ticker, success)
            THEN disk' = FileOf(state') /\ writers' = writers \cup {"bot"}
            ELSE UNCHANGED << disk, writers >>
    /\ UNCHANGED << pc, now, today, dry_run, cycle, current_balance,
                    exchange_positions, reasons, all_safe, scan_results, outcome,
                    log, orders, safety, result, prev_result, interrupted, api_pc,
                    api_state, api_position, api_calls, plan_orders, ops, last_op,
                    prev_state, last_price, balance_calls, call, held, kept_sl,
                    open_on_exchange, seen >>

\* Step 4, once the trailing loop is over: the safety checks.
StepChecks ==
    /\ pc = "trail"
    /\ todo = {}
    /\ \E btc_ticker \in BtcTickers, blackout \in BOOLEAN :
         /\ reasons' = run_all_checks(get_btc_24h_change(btc_ticker), blackout,
                                      open_short_count)
         /\ all_safe' = (AllPassed(reasons') /\ current_balance > 0)
    /\ safety' = IF all_safe' THEN "safe" ELSE "unsafe"
    /\ log' = log \o << "trail", "checks" >>
    /\ stop_updates' = 0
    /\ stop_request' = NoRequest
    /\ pc' = "scan"
    /\ UNCHANGED << state, disk, now, today, dry_run, cycle, current_balance,
                    exchange_positions, todo, scan_results, outcome, orders,
                    result, prev_result, interrupted, writers, api_pc, api_state,
                    api_position, api_calls, plan_orders, ops, last_op,
                    prev_state, last_price, balance_calls, call, held, kept_sl,
                    open_on_exchange, seen >>

\* A faulty variant of StepScanFailed: the cycle goes on to step 8.
\* StepsInFixedOrder tells it from the code.
StepScanFailedGoesOn ==
    /\ pc = "scan"
    /\ scan_results' = << >>
    /\ outcome' = "Error fetching tickers"
    /\ log' = Append(log, "scan failed")
    /\ pc' = "execute"
    /\ UNCHANGED << state, disk, now, today, dry_run, cycle, current_balance,
                    exchange_positions, todo, reasons, all_safe, orders, safety,
                    result, prev_result, interrupted, writers, api_pc, api_state,
                    api_position, api_calls, plan_orders, ops, last_op,
                    prev_state, last_price, balance_calls, call, held,
                    stop_updates, stop_request, kept_sl, open_on_exchange, seen >>

\* Step 5, when fetching the tickers raises: the cycle goes straight to its
\* save and report with an error outcome.
StepScanFailed ==
    /\ pc = "scan"
    /\ scan_results' = << >>
    /\ outcome' = "Error fetching tickers"
    /\ log' = Append(log, "scan failed")
    /\ pc' = "final"
    /\ UNCHANGED << state, disk, now, today, dry_run, cycle, current_balance,
                    exchange_positions, todo, reasons, all_safe, orders, safety,
                    result, prev_result, interrupted, writers, api_pc, api_state,
                    api_position, api_calls, plan_orders, ops, last_op,
                    prev_state, last_price, balance_calls, call, held,
                    stop_updates, stop_request, kept_sl, open_on_exchange, seen >>

\* (signal_count, rsi) of a is not below that of b.
RankedBefore(a, b) ==
    \/ a.signal_count > b.signal_count
    \/ a.signal_count = b.signal_count /\ a.rsi >= b.rsi

\* The orders in which sort(key=(signal_count, rsi), reverse=True) can leave
\* the analysed symbols.
SortedResults(analysis) ==
    LET chosen == DOMAIN analysis
        n == Cardinality(chosen)
        sorted == {sr \in [1..n -> chosen] :
                     /\ \A i, j \in 1..n : i # j => sr[i] # sr[j]
                     /\ \A i, j \in 1..n :
                          i < j => RankedBefore(analysis[sr[i]], analysis[sr[j]])}
    IN  {[i \in 1..n |->
            [symbol |-> sr[i], signal_count |-> analysis[sr[i]].signal_count,
             rsi |-> analysis[sr[i]].rsi, atr_pct |-> analysis[sr[i]].atr_pct]] :
         sr \in sorted}

\* A faulty variant of SortAndCut: the list is cut to top_n entries before it
\* is sorted.  WinnerIsTopQualifying tells it from the code.
CutAndSort(analysis, top_n) ==
    LET chosen == DOMAIN analysis
        n == Cardinality(chosen)
        m == IF n < top_n THEN n ELSE top_n
    IN  UNION {SortedResults([s \in kept |-> analysis[s]]) :
                 kept \in {k \in SUBSET chosen : Cardinality(k) = m}}

\* scan_results after step 7: sorted, then cut to the first top_n entries.
SortAndCut(analysis, top_n) ==
    {SubSeq(sorted, 1, IF Len(sorted) < top_n THEN Len(sorted) ELSE top_n) :
       sorted \in SortedResults(analysis)}

\* ... with the 20 of scan_results[:20].
SortedScans(analysis) == SortAndCut(analysis, TopN)

\* Steps 5 to 7: the liquid symbols that are not held and pass the ATR filter
\* are analysed, sorted and cut to the top TopN.
StepScan ==
    /\ pc = "scan"
    /\ \E chosen \in SUBSET (Symbols \ Tracked(state)) :
         \E analysis \in [chosen -> [signal_count : SignalCounts, rsi : RsiValues,
                                     atr_pct : AtrPcts]] :
           scan_results' \in SortedScans(analysis)
    /\ log' = Append(log, "scan")
    /\ pc' = "execute"
    /\ UNCHANGED << state, disk, now, today, dry_run, cycle, current_balance,
                    exchange_positions, todo, reasons, all_safe, outcome, orders,
                    safety, result, prev_result, interrupted, writers, api_pc,
                    api_state, api_position, api_calls, plan_orders, ops, last_op,
                    prev_state, last_price, balance_calls, call, held,
                    stop_updates, stop_request, kept_sl, open_on_exchange, seen >>

IsCandidate(r) == r.signal_count >= MinSignals

candidates == SelectSeq(scan_results, IsCandidate)

\* The symbol step 8 goes on with, given the scan results: candidates[0].
SelectBest(results) ==
    LET qualifying == SelectSeq(results, IsCandidate)
    IN  IF qualifying = << >> THEN "none" ELSE qualifying[1].symbol

\* A faulty variant of ReachesTicker: the result of the safety checks is not
\* looked at.  UnsafeCycleTradesNothing tells it from the code.
ReachesTickerUnchecked ==
    /\ candidates # << >>
    /\ calculate_position_size(current_balance, open_short_count) > 0

\* Whether step 8 gets as far as reading the ticker of the best candidate.
ReachesTicker ==
    /\ all_safe
    /\ candidates # << >>
    /\ calculate_position_size(current_balance, open_short_count) > 0

\* The outcome of step 8 when no trade is attempted; the last case is a
\* ticker that could not be fetched.
NoTradeOutcome ==
    IF ~all_safe THEN "Safety check failed, trade execution skipped"
    ELSE IF candidates = << >> THEN "No trade signals found this cycle"
    ELSE IF calculate_position_size(current_balance, open_short_count) <= 0
    THEN "Position size is zero, skipping"
    ELSE "Could not fetch ticker"

StepNoTrade ==
    /\ pc = "execute"
    /\ outcome' = NoTradeOutcome
    /\ log' = Append(log, "execute")
    /\ pc' = "final"
    /\ UNCHANGED << state, disk, now, today, dry_run, cycle, current_balance,
                    exchange_positions, todo, reasons, all_safe, scan_results,
                    orders, safety, result, prev_result, interrupted, writers,
                    api_pc, api_state, api_position, api_calls, plan_orders, ops,
                    last_op, prev_state, last_price, balance_calls, call, held,
                    stop_updates, stop_request, kept_sl, open_on_exchange, seen >>

\* A faulty variant of StepTrade: after a failed order step 8 is taken again.
\* FailedOrderChangesNothing tells it from the code.
StepTradeRetrying ==
    /\ pc = "execute"
    /\ ReachesTicker
    /\ \E entry_price \in OrderTickers \ {NoTicker}, fill \in FillTickers,
          accepted \in BOOLEAN :
         LET best == candidates[1]
             margin == calculate_position_size(current_balance, open_short_count)
             sl_tp == calculate_sl_tp(entry_price, best.atr_pct)
             placed == ~dry_run /\ fill # NoTicker /\ accepted
             position ==
                 IF dry_run
                 THEN DryRunPosition(best.symbol, entry_price, margin,
                                     sl_tp[1], sl_tp[2])
                 ELSE open_short(best.symbol, margin, sl_tp[1], sl_tp[2], fill)
         IN  /\ orders' = IF dry_run THEN orders ELSE orders + 1
             /\ IF dry_run \/ placed
                THEN /\ state' = add_position(state, position, now)
                     /\ disk' = FileOf(state')
                     /\ writers' = writers \cup {"bot"}
                     /\ outcome' = "Opened SHORT"
                     /\ log' = Append(log, "execute")
                     /\ pc' = "final"
                ELSE /\ UNCHANGED << state, disk, writers, log >>
                     /\ outcome' = "Failed to open short"
                     /\ pc' = IF orders < 2 THEN "execute" ELSE "final"
    /\ UNCHANGED << now, today, dry_run, cycle, current_balance,
                    exchange_positions, todo, reasons, all_safe, scan_results,
                    safety, result, prev_result, interrupted, api_pc, api_state,
                    api_position, api_calls, plan_orders, ops, last_op,
                    prev_state, last_price, balance_calls, call, held,
                    stop_updates, stop_request, kept_sl, open_on_exchange, seen >>

\* A faulty variant of StepTrade: after an order that was placed step 8 is
\* taken again, as if it went through the candidates.
\* OneOrderAndOnePositionPerCycle tells it from the code.
StepTradeEveryCandidate ==
    /\ pc = "execute"
    /\ ReachesTicker
    /\ \E entry_price \in OrderTickers \ {NoTicker}, fill \in FillTickers,
          accepted \in BOOLEAN :
         LET best == candidates[1]
             margin == calculate_position_size(current_balance, open_short_count)
             sl_tp == calculate_sl_tp(entry_price, best.atr_pct)
             placed == ~dry_run /\ fill # NoTicker /\ accepted
             position ==
                 IF dry_run
                 THEN DryRunPosition(best.symbol, entry_price, margin,
                                     sl_tp[1], sl_tp[2])
                 ELSE open_short(best.symbol, margin, sl_tp[1], sl_tp[2], fill)
         IN  /\ orders' = IF dry_run THEN orders ELSE orders + 1
             /\ IF dry_run \/ placed
                THEN /\ state' = add_position(state, position, now)
                     /\ disk' = FileOf(state')
                     /\ writers' = writers \cup {"bot"}
                     /\ outcome' = "Opened SHORT"
                     /\ log' = IF state.total_trades < cycle THEN log
                               ELSE Append(log, "execute")
                     /\ pc' = IF state.total_trades < cycle THEN "execute"
                              ELSE "final"
                ELSE /\ UNCHANGED << state, disk, writers >>
                     /\ outcome' = "Failed to open short"
                     /\ log' = Append(log, "execute")
                     /\ pc' = "final"
    /\ UNCHANGED << now, today, dry_run, cycle, current_balance,
                    exchange_positions, todo, reasons, all_safe, scan_results,
                    safety, result, prev_result, interrupted, api_pc, api_state,
                    api_position, api_calls, plan_orders, ops, last_op,
                    prev_state, last_price, balance_calls, call, held,
                    stop_updates, stop_request, kept_sl, open_on_exchange, seen >>

\* Step 8 with a ticker: the order is placed (or, in dry-run mode, made up)
\* and the position it returns is added to the state.
StepTrade ==
    /\ pc = "execute"
    /\ ReachesTicker
    /\ \E entry_price \in OrderTickers \ {NoTicker}, fill \in FillTickers,
          accepted \in BOOLEAN :
         LET best == candidates[1]
             margin == calculate_position_size(current_balance, open_short_count)
             sl_tp == calculate_sl_tp(entry_price, best.atr_pct)
             placed == ~dry_run /\ fill # NoTicker /\ accepted
             position ==
                 IF dry_run
                 THEN DryRunPosition(best.symbol, entry_price, margin,
                                     sl_tp[1], sl_tp[2])
                 ELSE open_short(best.symbol, margin, sl_tp[1], sl_tp[2], fill)
         IN  /\ orders' = IF dry_run THEN orders ELSE orders + 1
             /\ IF dry_run \/ placed
                THEN /\ state' = add_position(state, position, now)
                     /\ disk' = FileOf(state')
                     /\ writers' = writers \cup {"bot"}
                     /\ outcome' = "Opened SHORT"
                ELSE /\ UNCHANGED << state, disk, writers >>
                     /\ outcome' = "Failed to open short"
    /\ log' = Append(log, "execute")
    /\ pc' = "final"
    /\ UNCHANGED << now, today, dry_run, cycle, current_balance,
                    exchange_positions, todo, reasons, all_safe, scan_results,
                    safety, result, prev_result, interrupted, api_pc, api_state,
                    api_position, api_calls, plan_orders, ops, last_op,
                    prev_state, last_price, balance_calls, call, held,
                    stop_updates, stop_request, kept_sl, open_on_exchange, seen >>

\* run_cycle returns or raises: its local variables are gone.
Returned ==
    /\ current_balance' = 0
    /\ exchange_positions' = NoSnapshot
    /\ todo' = {}
    /\ reasons' = << >>
    /\ all_safe' = FALSE
    /\ scan_results' = << >>
    /\ outcome' = ""
    /\ held' = {}
    /\ stop_updates' = 0
    /\ stop_request' = NoRequest
    /\ pc' = "between"

\* The end of run_cycle: save_state, then generate_report.
StepFinal ==
    /\ pc = "final"
    /\ state' = save_state(state, now)
    /\ disk' = FileOf(state')
    /\ writers' = writers \cup {"bot"}
    /\ log' = log \o << "save", "report" >>
    /\ result' = "normal"
    /\ Returned
    /\ UNCHANGED << now, today, dry_run, cycle, orders, safety, prev_result,
                    interrupted, api_pc, api_state, api_position, api_calls,
                    plan_orders, ops, last_op, prev_state, last_price,
                    balance_calls, call, kept_sl, open_on_exchange, seen >>

\* ------------------------------------------------- exceptions in a cycle
\* A faulty variant of Caught: the exception ends the process.
\* ExceptionKeepsLoopGoing tells it from the code.
Uncaught ==
    /\ result' = "exception"
    /\ current_balance' = 0
    /\ exchange_positions' = NoSnapshot
    /\ todo' = {}
    /\ reasons' = << >>
    /\ all_safe' = FALSE
    /\ scan_results' = << >>
    /\ outcome' = ""
    /\ held' = {}
    /\ stop_updates' = 0
    /\ stop_request' = NoRequest
    /\ pc' = "killed"

\* What "except Exception" of main() does: the cycle is over, the loop goes on.
Caught ==
    /\ result' = "exception"
    /\ Returned

\* load_markets() raises before the second balance read.
ExcLoadMarkets ==
    /\ pc = "balance"
    /\ \E first \in {b \in Balances : b <= 0} :
         balance_calls' = << BalanceRead(first), MarketReload >>
    /\ Caught
    /\ UNCHANGED << state, disk, now, today, dry_run, cycle, log, orders, safety,
                    prev_result, interrupted, writers, api_pc, api_state,
                    api_position, api_calls, plan_orders, ops, last_op,
                    prev_state, last_price, call, kept_sl, open_on_exchange, seen >>

\* A ticker whose "last" is None makes calculate_trailing_stop raise.
ExcTrail ==
    /\ pc = "trail"
    /\ \E symbol \in todo : TrailConsiders(state, symbol, exchange_positions[symbol])
    /\ Caught
    /\ UNCHANGED << state, disk, now, today, dry_run, cycle, log, orders, safety,
                    prev_result, interrupted, writers, api_pc, api_state,
                    api_position, api_calls, plan_orders, ops, last_op,
                    prev_state, last_price, balance_calls, call, kept_sl,
                    open_on_exchange, seen >>

\* The symbol list or the analysis of a symbol raises.
ExcScan ==
    /\ pc = "scan"
    /\ Caught
    /\ UNCHANGED << state, disk, now, today, dry_run, cycle, log, orders, safety,
                    prev_result, interrupted, writers, api_pc, api_state,
                    api_position, api_calls, plan_orders, ops, last_op,
                    prev_state, last_price, balance_calls, call, kept_sl,
                    open_on_exchange, seen >>

\* A ticker whose "last" is None makes calculate_sl_tp raise.
ExcTrade ==
    /\ pc = "execute"
    /\ ReachesTicker
    /\ Caught
    /\ UNCHANGED << state, disk, now, today, dry_run, cycle, log, orders, safety,
                    prev_result, interrupted, writers, api_pc, api_state,
                    api_position, api_calls, plan_orders, ops, last_op,
                    prev_state, last_price, balance_calls, call, kept_sl,
                    open_on_exchange, seen >>

\* generate_report raises, after the state has been saved.
ExcReport ==
    /\ pc = "final"
    /\ state' = save_state(state, now)
    /\ disk' = FileOf(state')
    /\ writers' = writers \cup {"bot"}
    /\ log' = Append(log, "save")
    /\ Caught
    /\ UNCHANGED << now, today, dry_run, cycle, orders, safety, prev_result,
                    interrupted, api_pc, api_state, api_position, api_calls,
                    plan_orders, ops, last_op, prev_state, last_price,
                    balance_calls, call, kept_sl, open_on_exchange, seen >>

\* ------------------------------------------------------------ main loop
\* logger.info("Sleeping ..."), then time.sleep begins.
StepSleep ==
    /\ pc = "between"
    /\ pc' = "sleep"
    /\ UNCHANGED << state, disk, now, today, dry_run, cycle, current_balance,
                    exchange_positions, todo, reasons, all_safe, scan_results,
                    outcome, log, orders, safety, result, prev_result,
                    interrupted, writers, api_pc, api_state, api_position,
                    api_calls, plan_orders, ops, last_op, prev_state, last_price,
                    balance_calls, call, held, stop_updates, stop_request,
                    kept_sl, open_on_exchange, seen >>

\* time.sleep returns and the next run_cycle begins.
StepWake ==
    /\ pc = "sleep"
    /\ cycle < MaxCycles
    /\ cycle' = cycle + 1
    /\ now' = now + 1
    /\ prev_result' = result
    /\ result' = "running"
    /\ safety' = "unknown"
    /\ log' = << >>
    /\ orders' = 0
    /\ balance_calls' = << >>
    /\ pc' = "balance"
    /\ UNCHANGED << state, disk, today, dry_run, current_balance,
                    exchange_positions, todo, reasons, all_safe, scan_results,
                    outcome, interrupted, writers, api_pc, api_state,
                    api_position, api_calls, plan_orders, ops, last_op,
                    prev_state, last_price, call, held, stop_updates,
                    stop_request, kept_sl, open_on_exchange, seen >>

\* A faulty variant of Interrupt: the loop is left without save_state.
\* InterruptSavesAndStops tells it from the code.
InterruptWithoutSave ==
    /\ pc \in InCycle \cup {"sleep"}
    /\ interrupted' = IF pc = "sleep" THEN "sleep" ELSE "cycle"
    /\ pc' = "stopped"
    /\ UNCHANGED << state, disk, now, today, dry_run, cycle, current_balance,
                    exchange_positions, todo, reasons, all_safe, scan_results,
                    outcome, log, orders, safety, result, prev_result, writers,
                    api_pc, api_state, api_position, api_calls, plan_orders, ops,
                    last_op, prev_state, last_price, balance_calls, call, held,
                    stop_updates, stop_request, kept_sl, open_on_exchange, seen >>

\* KeyboardInterrupt inside run_cycle or inside time.sleep: save_state, break.
Interrupt ==
    /\ pc \in InCycle \cup {"sleep"}
    /\ interrupted' = IF pc = "sleep" THEN "sleep" ELSE "cycle"
    /\ state' = save_state(state, now)
    /\ disk' = FileOf(state')
    /\ writers' = writers \cup {"bot"}
    /\ pc' = "stopped"
    /\ UNCHANGED << now, today, dry_run, cycle, current_balance,
                    exchange_positions, todo, reasons, all_safe, scan_results,
                    outcome, log, orders, safety, result, prev_result, api_pc,
                    api_state, api_position, api_calls, plan_orders, ops, last_op,
                    prev_state, last_price, balance_calls, call, held,
                    stop_updates, stop_request, kept_sl, open_on_exchange, seen >>

\* KeyboardInterrupt between the two try blocks of the loop (the exception
\* handler's logging, the "Sleeping" message): nothing catches it.
InterruptUncaught ==
    /\ pc = "between"
    /\ interrupted' = "between"
    /\ pc' = "killed"
    /\ UNCHANGED << state, disk, now, today, dry_run, cycle, current_balance,
                    exchange_positions, todo, reasons, all_safe, scan_results,
                    outcome, log, orders, safety, result, prev_result, writers,
                    api_pc, api_state, api_position, api_calls, plan_orders, ops,
                    last_op, prev_state, last_price, balance_calls, call, held,
                    stop_updates, stop_request, kept_sl, open_on_exchange, seen >>

\* ------------------------------------------------------------ /api/short
\* A request the handler answers with an error: nothing is written.
ApiReject ==
    /\ api_pc = "idle"
    /\ api_calls < MaxApiCalls
    /\ api_calls' = api_calls + 1
    /\ UNCHANGED << pc, state, disk, now, today, dry_run, cycle, current_balance,
                    exchange_positions, todo, reasons, all_safe, scan_results,
                    outcome, log, orders, safety, result, prev_result,
                    interrupted, writers, api_pc, api_state, api_position,
                    plan_orders, ops, last_op, prev_state, last_price,
                    balance_calls, call, held, stop_updates, stop_request,
                    kept_sl, open_on_exchange, seen >>

\* A request that passes the handler's checks (fewer than max_positions open
\* positions, none on the symbol, a positive balance, enough candles, a
\* ticker) and whose TP-only order the exchange accepts.
ApiShort ==
    /\ api_pc = "idle"
    /\ api_calls < MaxApiCalls
    /\ \E symbol \in Symbols, balance \in Balances \ {0}, atr_pct \in AtrPcts,
          entry_price \in OrderTickers \ {NoTicker},
          fill \in OrderTickers \ {NoTicker} :
         api_position' = api_short_order(symbol, balance, atr_pct, entry_price, fill)
    /\ api_calls' = api_calls + 1
    /\ api_pc' = "placed"
    /\ UNCHANGED << pc, state, disk, now, today, dry_run, cycle, current_balance,
                    exchange_positions, todo, reasons, all_safe, scan_results,
                    outcome, log, orders, safety, result, prev_result,
                    interrupted, writers, api_state, plan_orders, ops, last_op,
                    prev_state, last_price, balance_calls, call, held,
                    stop_updates, stop_request, kept_sl, open_on_exchange, seen >>

\* state = load_state()
ApiLoadState ==
    /\ api_pc = "placed"
    /\ api_state' = load_state(disk, today)
    /\ api_pc' = "loaded"
    /\ UNCHANGED << pc, state, disk, now, today, dry_run, cycle, current_balance,
                    exchange_positions, todo, reasons, all_safe, scan_results,
                    outcome, log, orders, safety, result, prev_result,
                    interrupted, writers, api_position, api_calls, plan_orders,
                    ops, last_op, prev_state, last_price, balance_calls, call,
                    held, stop_updates, stop_request, kept_sl, open_on_exchange,
                    seen >>

\* add_position(state, position): the handler writes state.json.
ApiAddPosition ==
    /\ api_pc = "loaded"
    /\ disk' = FileOf(add_position(api_state, api_position, now))
    /\ writers' = writers \cup {"api"}
    /\ api_state' = get_default_state(0)
    /\ api_position' = NoOrder
    /\ api_pc' = "idle"
    /\ UNCHANGED << pc, state, now, today, dry_run, cycle, current_balance,
                    exchange_positions, todo, reasons, all_safe, scan_results,
                    outcome, log, orders, safety, result, prev_result,
                    interrupted, api_calls, plan_orders, ops, last_op, prev_state,
                    last_price, balance_calls, call, held, stop_updates,
                    stop_request, kept_sl, open_on_exchange, seen >>

\* ---------------------------------------------------------- specification
\* The steps of one pass of the loop of main().
FirstCycleNext ==
    \/ StepBalance
    \/ StepSync
    \/ StepTrail
    \/ StepChecks
    \/ StepScanFailed
    \/ StepScan
    \/ StepNoTrade
    \/ StepTrade
    \/ StepFinal
    \/ ExcLoadMarkets
    \/ ExcTrail
    \/ ExcScan
    \/ ExcTrade
    \/ ExcReport
    \/ StepSleep
    \/ Interrupt
    \/ InterruptUncaught

\* The bot process: bot.py's main().
Next == FirstCycleNext \/ StepWake

Spec == Init /\ [][Next]_vars

ApiNext ==
    \/ ApiReject
    \/ ApiShort
    \/ ApiLoadState
    \/ ApiAddPosition

\* The bot process and the api_server process side by side on one state.json,
\* the bot followed through its first cycle and into its sleep.
NextApi == FirstCycleNext \/ ApiNext

SpecApi == Init /\ [][NextApi]_vars

\* ------------------------------------------------- operations in sequence
\* sync_positions_with_exchange and the loop body of manage_trailing_stops
\* called one after the other on the state dict, with any inputs, the clock
\* moving on between the calls.
InitOps ==
    /\ InitCommon
    /\ pc = "ops"
    /\ state = load_state(disk, today)
    /\ open_on_exchange = {}

\* What the exchange can show of one symbol: its position and its pending
\* plan orders.  A plan order is only ever read for a field the position
\* leaves unset, so the other combinations are left out.
OpsViews ==
    {v \in [pos : {NoExch, LongExch} \cup {x \in ShortExch : x.stop_loss \in OpsStops},
            plan : [tp : PlanTargets, sl : PlanStops]] :
       /\ (v.pos.side # "short" \/ v.pos.take_profit # 0) => v.plan.tp = 0
       /\ (v.pos.side # "short" \/ v.pos.stop_loss # 0) => v.plan.sl = 0}

\* kept_sl after an operation: for a short that is still open on the
\* exchange, the current_sl the state dict tracks for it if it tracks one,
\* and what was kept before if it does not.
KeptStops(kept, st, open) ==
    [s \in Symbols |->
       IF s \notin open THEN 0
       ELSE IF s \in Tracked(st) /\ st.positions[s].current_sl > 0
            THEN st.positions[s].current_sl
            ELSE kept[s]]

\* sync_positions_with_exchange with a fresh snapshot and plan orders.
OpSync ==
    /\ pc = "ops"
    /\ ops < MaxOps
    /\ \E view \in [Symbols -> OpsViews] :
         /\ exchange_positions' = [s \in Symbols |-> view[s].pos]
         /\ plan_orders' = [s \in Symbols |-> view[s].plan]
         /\ state' = sync_positions_with_exchange(
                        state, exchange_positions', plan_orders', now)
    /\ prev_state' = state
    /\ disk' = FileOf(state')
    /\ writers' = writers \cup {"bot"}
    /\ last_price' = NoPrices
    /\ stop_request' = NoRequest
    /\ held' = Shorts(exchange_positions')
    /\ kept_sl' = KeptStops(kept_sl, state', held')
    /\ last_op' = "sync"
    /\ ops' = ops + 1
    /\ now' = now + 1
    /\ UNCHANGED << pc, today, dry_run, cycle, current_balance, todo, reasons,
                    all_safe, scan_results, outcome, log, orders, safety, result,
                    prev_result, interrupted, api_pc, api_state, api_position,
                    api_calls, balance_calls, call, stop_updates,
                    open_on_exchange, seen >>

\* get_open_positions fails and returns []: sync_positions_with_exchange
\* with an empty snapshot while the shorts are still open on the exchange.
OpSyncFailed ==
    /\ pc = "ops"
    /\ ops < MaxOps
    /\ held # {}
    /\ exchange_positions' = NoSnapshot
    /\ plan_orders' = NoPlans
    /\ state' = sync_positions_with_exchange(state, NoSnapshot, NoPlans, now)
    /\ prev_state' = state
    /\ disk' = FileOf(state')
    /\ writers' = writers \cup {"bot"}
    /\ last_price' = NoPrices
    /\ stop_request' = NoRequest
    /\ kept_sl' = KeptStops(kept_sl, state', held)
    /\ last_op' = "sync failed"
    /\ ops' = ops + 1
    /\ now' = now + 1
    /\ UNCHANGED << pc, today, dry_run, cycle, current_balance, todo, reasons,
                    all_safe, scan_results, outcome, log, orders, safety, result,
                    prev_result, interrupted, api_pc, api_state, api_position,
                    api_calls, balance_calls, call, held, stop_updates,
                    open_on_exchange, seen >>

\* sync_positions_with_exchange once more, the exchange answering as before.
OpSyncAgain ==
    /\ pc = "ops"
    /\ ops < MaxOps
    /\ last_op \in {"sync", "sync again"}
    /\ state' = sync_positions_with_exchange(state, exchange_positions,
                                             plan_orders, now)
    /\ prev_state' = state
    /\ disk' = FileOf(state')
    /\ writers' = writers \cup {"bot"}
    /\ stop_request' = NoRequest
    /\ kept_sl' = KeptStops(kept_sl, state', held)
    /\ last_op' = "sync again"
    /\ ops' = ops + 1
    /\ now' = now + 1
    /\ UNCHANGED << pc, today, dry_run, cycle, current_balance,
                    exchange_positions, todo, reasons, all_safe, scan_results,
                    outcome, log, orders, safety, result, prev_result,
                    interrupted, api_pc, api_state, api_position, api_calls,
                    plan_orders, last_price, balance_calls, call, held,
                    stop_updates, open_on_exchange, seen >>

\* The price the loop body of manage_trailing_stops works with.
TrailPrice(pos, ticker) == IF ticker = NoTicker THEN pos.entry_price ELSE ticker

\* The loop body of manage_trailing_stops for one exchange position.  The
\* call is "applied" unless update_stop_loss refused the stop it computed.
OpTrail ==
    /\ pc = "ops"
    /\ ops < MaxOps
    /\ \E symbol \in Symbols, ticker \in TrailTickers, success \in BOOLEAN :
         LET pos == exchange_positions[symbol]
         IN  /\ TrailConsiders(state, symbol, pos)
             /\ state' = TrailPosition(state, symbol, pos, ticker, success, now)
             /\ last_price' =
                  [last_price EXCEPT ![symbol] =
                     [price |-> TrailPrice(pos, ticker),
                      applied |-> (TrailNewStop(state, symbol, pos, ticker) = NoUpdate
                                   \/ success)]]
             /\ stop_request' = TrailRequest(state, symbol, pos, ticker, success)
             /\ IF TrailSaves(state, symbol, pos, ticker, success)
                THEN disk' = FileOf(state') /\ writers' = writers \cup {"bot"}
                ELSE UNCHANGED << disk, writers >>
    /\ kept_sl' = KeptStops(kept_sl, state', held)
    /\ prev_state' = state
    /\ last_op' = "trail"
    /\ ops' = ops + 1
    /\ now' = now + 1
    /\ UNCHANGED << pc, today, dry_run, cycle, current_balance,
                    exchange_positions, todo, reasons, all_safe, scan_results,
                    outcome, log, orders, safety, result, prev_result,
                    interrupted, api_pc, api_state, api_position, api_calls,
                    plan_orders, balance_calls, call, held, stop_updates,
                    open_on_exchange, seen >>

NextOps == OpSync \/ OpSyncAgain \/ OpSyncFailed \/ OpTrail

SpecOps == InitOps /\ [][NextOps]_vars

\* ------------------------------------------------- the day changes
\* Midnight UTC passes while the bot sleeps between two cycles.
Midnight ==
    /\ pc = "sleep"
    /\ today < MaxDays
    /\ today' = today + 1
    /\ UNCHANGED << pc, state, disk, now, dry_run, cycle, current_balance,
                    exchange_positions, todo, reasons, all_safe, scan_results,
                    outcome, log, orders, safety, result, prev_result,
                    interrupted, writers, api_pc, api_state, api_position,
                    api_calls, plan_orders, ops, last_op, prev_state, last_price,
                    balance_calls, call, held, stop_updates, stop_request,
                    kept_sl, open_on_exchange, seen >>

\* The bot process kept running from one UTC day into the next.
NextDay == Next \/ Midnight

SpecDay == Init /\ [][NextDay]_vars

\* ------------------------------------------------- functions on their own
\* The pure functions of risk.py and strategy.py called with any arguments,
\* one call in each run.
InitCalc ==
    /\ InitCommon
    /\ pc = "calc"
    /\ state = load_state(disk, today)
    /\ open_on_exchange = {}

CallDailyLoss ==
    /\ pc = "calc"
    /\ \E start_balance \in CalcBalances, balance \in CalcBalances :
         call' = [fn |-> "check_daily_loss",
                  args |-> << start_balance, balance >>,
                  out |-> << check_daily_loss(start_balance, balance) >>]
    /\ pc' = "called"
    /\ UNCHANGED << state, disk, now, today, dry_run, cycle, current_balance,
                    exchange_positions, todo, reasons, all_safe, scan_results,
                    outcome, log, orders, safety, result, prev_result,
                    interrupted, writers, api_pc, api_state, api_position,
                    api_calls, plan_orders, ops, last_op, prev_state, last_price,
                    balance_calls, held, stop_updates, stop_request, kept_sl,
                    open_on_exchange, seen >>

CallPositionSize ==
    /\ pc = "calc"
    /\ \E balance \in CalcSizes, open_positions \in 0..(MaxSlots + 1),
          max_positions \in 1..MaxSlots, position_size_pct \in CalcPcts :
         call' = [fn |-> "calculate_position_size",
                  args |-> << balance, open_positions, max_positions,
                              position_size_pct >>,
                  out |-> << position_size(balance, open_positions,
                                           max_positions, position_size_pct) >>]
    /\ pc' = "called"
    /\ UNCHANGED << state, disk, now, today, dry_run, cycle, current_balance,
                    exchange_positions, todo, reasons, all_safe, scan_results,
                    outcome, log, orders, safety, result, prev_result,
                    interrupted, writers, api_pc, api_state, api_position,
                    api_calls, plan_orders, ops, last_op, prev_state, last_price,
                    balance_calls, held, stop_updates, stop_request, kept_sl,
                    open_on_exchange, seen >>

CallSlTp ==
    /\ pc = "calc"
    /\ \E entry_price \in CalcEntries, atr_pct \in CalcAtrPcts :
         call' = [fn |-> "calculate_sl_tp",
                  args |-> << entry_price, atr_pct >>,
                  out |-> calculate_sl_tp(entry_price, atr_pct)]
    /\ pc' = "called"
    /\ UNCHANGED << state, disk, now, today, dry_run, cycle, current_balance,
                    exchange_positions, todo, reasons, all_safe, scan_results,
                    outcome, log, orders, safety, result, prev_result,
                    interrupted, writers, api_pc, api_state, api_position,
                    api_calls, plan_orders, ops, last_op, prev_state, last_price,
                    balance_calls, held, stop_updates, stop_request, kept_sl,
                    open_on_exchange, seen >>

\* run_cycle step 4: the BTC change is read and the checks are run.
CallChecks ==
    /\ pc = "calc"
    /\ \E btc_ticker \in BtcTickers, blackout \in BOOLEAN,
          open_positions \in 0..MaxPositions :
         LET btc_change == get_btc_24h_change(btc_ticker)
             reasons_out == run_all_checks(btc_change, blackout, open_positions)
         IN  call' = [fn |-> "run_all_checks",
                      args |-> << btc_ticker, blackout, open_positions >>,
                      out |-> << btc_change, reasons_out, AllPassed(reasons_out) >>]
    /\ pc' = "called"
    /\ UNCHANGED << state, disk, now, today, dry_run, cycle, current_balance,
                    exchange_positions, todo, reasons, all_safe, scan_results,
                    outcome, log, orders, safety, result, prev_result,
                    interrupted, writers, api_pc, api_state, api_position,
                    api_calls, plan_orders, ops, last_op, prev_state, last_price,
                    balance_calls, held, stop_updates, stop_request, kept_sl,
                    open_on_exchange, seen >>

CallTrailingStop ==
    /\ pc = "calc"
    /\ \E entry_price \in CalcTrailEntries, current_price \in CalcTrailPrices,
          current_sl \in CalcTrailStops, trailing_start_pct \in CalcStartPcts,
          trailing_distance_pct \in CalcDistancePcts :
         call' = [fn |-> "calculate_trailing_stop",
                  args |-> << entry_price, current_price, current_sl,
                              trailing_start_pct, trailing_distance_pct >>,
                  out |-> << trailing_stop(entry_price, current_price, current_sl,
                                           trailing_start_pct, trailing_distance_pct) >>]
    /\ pc' = "called"
    /\ UNCHANGED << state, disk, now, today, dry_run, cycle, current_balance,
                    exchange_positions, todo, reasons, all_safe, scan_results,
                    outcome, log, orders, safety, result, prev_result,
                    interrupted, writers, api_pc, api_state, api_position,
                    api_calls, plan_orders, ops, last_op, prev_state, last_price,
                    balance_calls, held, stop_updates, stop_request, kept_sl,
                    open_on_exchange, seen >>

\* Steps 7 and 8 up to the choice of the symbol: sort, cut, filter, take the
\* first.
CallSelect ==
    /\ pc = "calc"
    /\ \E chosen \in SUBSET RankSymbols, top_n \in RankTops :
         \E analysis \in [chosen -> [signal_count : RankSignals, rsi : RsiValues,
                                     atr_pct : AtrPcts]] :
           \E results \in SortAndCut(analysis, top_n) :
             call' = [fn |-> "select",
                      args |-> << analysis, top_n >>,
                      out |-> << results, SelectBest(results) >>]
    /\ pc' = "called"
    /\ UNCHANGED << state, disk, now, today, dry_run, cycle, current_balance,
                    exchange_positions, todo, reasons, all_safe, scan_results,
                    outcome, log, orders, safety, result, prev_result,
                    interrupted, writers, api_pc, api_state, api_position,
                    api_calls, plan_orders, ops, last_op, prev_state, last_price,
                    balance_calls, held, stop_updates, stop_request, kept_sl,
                    open_on_exchange, seen >>

\* analyze_classic and analyze_volume on the same candles and funding rate.
CallAnalyze ==
    /\ pc = "calc"
    /\ \E rsi \in CalcRsis, ema_cross \in BOOLEAN, macd_cross \in BOOLEAN,
          volume_spike \in BOOLEAN, funding_rate \in CalcFundings :
         call' = [fn |-> "analyze",
                  args |-> << rsi, ema_cross, macd_cross, volume_spike,
                              funding_rate >>,
                  out |-> << analyze_classic(rsi, ema_cross, macd_cross,
                                             funding_rate),
                             analyze_volume(rsi, ema_cross, volume_spike,
                                            funding_rate) >>]
    /\ pc' = "called"
    /\ UNCHANGED << state, disk, now, today, dry_run, cycle, current_balance,
                    exchange_positions, todo, reasons, all_safe, scan_results,
                    outcome, log, orders, safety, result, prev_result,
                    interrupted, writers, api_pc, api_state, api_position,
                    api_calls, plan_orders, ops, last_op, prev_state, last_price,
                    balance_calls, held, stop_updates, stop_request, kept_sl,
                    open_on_exchange, seen >>

\* calculate_ema_cross on the series up to the bar before the last, as one
\* cycle earlier, and on the whole series.
CallEmaCross ==
    /\ pc = "calc"
    /\ \E n \in CrossBars :
         \E fast_values \in [1..n -> CrossValues], slow_values \in [1..n -> CrossValues] :
           call' = [fn |-> "calculate_ema_cross",
                    args |-> << fast_values, slow_values >>,
                    out |-> << calculate_ema_cross(SubSeq(fast_values, 1, n - 1),
                                                   SubSeq(slow_values, 1, n - 1)),
                               calculate_ema_cross(fast_values, slow_values) >>]
    /\ pc' = "called"
    /\ UNCHANGED << state, disk, now, today, dry_run, cycle, current_balance,
                    exchange_positions, todo, reasons, all_safe, scan_results,
                    outcome, log, orders, safety, result, prev_result,
                    interrupted, writers, api_pc, api_state, api_position,
                    api_calls, plan_orders, ops, last_op, prev_state, last_price,
                    balance_calls, held, stop_updates, stop_request, kept_sl,
                    open_on_exchange, seen >>

\* calculate_macd_cross in the same way.
CallMacdCross ==
    /\ pc = "calc"
    /\ \E n \in CrossBars :
         \E macd_line \in [1..n -> CrossValues], signal_line \in [1..n -> CrossValues] :
           call' = [fn |-> "calculate_macd_cross",
                    args |-> << macd_line, signal_line >>,
                    out |-> << calculate_macd_cross(SubSeq(macd_line, 1, n - 1),
                                                    SubSeq(signal_line, 1, n - 1)),
                               calculate_macd_cross(macd_line, signal_line) >>]
    /\ pc' = "called"
    /\ UNCHANGED << state, disk, now, today, dry_run, cycle, current_balance,
                    exchange_positions, todo, reasons, all_safe, scan_results,
                    outcome, log, orders, safety, result, prev_result,
                    interrupted, writers, api_pc, api_state, api_position,
                    api_calls, plan_orders, ops, last_op, prev_state, last_price,
                    balance_calls, held, stop_updates, stop_request, kept_sl,
                    open_on_exchange, seen >>

\* The manual order and the cycle's order for the same balance, number of
\* open positions (below the limit both paths check) and prices.
CallOrders ==
    /\ pc = "calc"
    /\ \E symbol \in Symbols, balance \in Balances \ {0},
          open_positions \in 0..(MaxPositions - 1), atr_pct \in AtrPcts,
          entry_price \in OrderTickers \ {NoTicker},
          fill \in FillTickers \ {NoTicker} :
         call' = [fn |-> "orders",
                  args |-> << symbol, balance, open_positions, atr_pct,
                              entry_price, fill >>,
                  out |-> << api_short_order(symbol, balance, atr_pct,
                                             entry_price, fill),
                             run_cycle_order(symbol, balance, open_positions,
                                             atr_pct, entry_price, fill) >>]
    /\ pc' = "called"
    /\ UNCHANGED << state, disk, now, today, dry_run, cycle, current_balance,
                    exchange_positions, todo, reasons, all_safe, scan_results,
                    outcome, log, orders, safety, result, prev_result,
                    interrupted, writers, api_pc, api_state, api_position,
                    api_calls, plan_orders, ops, last_op, prev_state, last_price,
                    balance_calls, held, stop_updates, stop_request, kept_sl,
                    open_on_exchange, seen >>

\* The adoption of an untracked short, with any pending plan orders.
CallAdopt ==
    /\ pc = "calc"
    /\ \E pos \in ShortExch, plan \in [tp : CalcPlanTargets, sl : CalcPlanStops] :
         call' = [fn |-> "adopt",
                  args |-> << pos, plan >>,
                  out |-> << AdoptPosition(pos, plan),
                             PlanQueried(pos.take_profit, pos.stop_loss) >>]
    /\ pc' = "called"
    /\ UNCHANGED << state, disk, now, today, dry_run, cycle, current_balance,
                    exchange_positions, todo, reasons, all_safe, scan_results,
                    outcome, log, orders, safety, result, prev_result,
                    interrupted, writers, api_pc, api_state, api_position,
                    api_calls, plan_orders, ops, last_op, prev_state, last_price,
                    balance_calls, held, stop_updates, stop_request, kept_sl,
                    open_on_exchange, seen >>

\* The backfill of a tracked position that the exchange reports as well.
CallBackfill ==
    /\ pc = "calc"
    /\ \E pos \in ShortExch, plan \in [tp : CalcPlanTargets, sl : CalcPlanStops],
          take_profit \in CalcTrackedTargets, stop_loss \in CalcTrackedStops,
          current_sl \in CalcTrackedTrails :
         LET tracked == [order_id |-> "order", entry_price |-> pos.entry_price,
                         margin_usdt |-> pos.margin, stop_loss |-> stop_loss,
                         take_profit |-> take_profit, current_sl |-> current_sl]
         IN  call' = [fn |-> "backfill",
                      args |-> << tracked, pos, plan >>,
                      out |-> << BackfillPosition(tracked, pos, plan) >>]
    /\ pc' = "called"
    /\ UNCHANGED << state, disk, now, today, dry_run, cycle, current_balance,
                    exchange_positions, todo, reasons, all_safe, scan_results,
                    outcome, log, orders, safety, result, prev_result,
                    interrupted, writers, api_pc, api_state, api_position,
                    api_calls, plan_orders, ops, last_op, prev_state, last_price,
                    balance_calls, held, stop_updates, stop_request, kept_sl,
                    open_on_exchange, seen >>

NextCalc ==
    \/ CallDailyLoss \/ CallPositionSize \/ CallSlTp
    \/ CallSelect \/ CallAnalyze \/ CallEmaCross \/ CallMacdCross
    \/ CallOrders \/ CallAdopt \/ CallBackfill \/ CallTrailingStop \/ CallChecks

SpecCalc == InitCalc /\ [][NextCalc]_vars


\* ------------------------------------------------- two processes, one limit
\* The bot's cycle and the /api/short handler, each reading the open
\* positions and then placing its order, on an exchange that holds shorts
\* only.  Every read succeeds here; no other party opens a position.
InitRace ==
    /\ InitCommon
    /\ pc = "sync"
    /\ state = load_state(disk, today)
    /\ open_on_exchange \in {open \in SUBSET RaceSymbols :
                               Cardinality(open) <= MaxPositions}

\* run_cycle steps 2 to 4: get_open_positions, open_short_count and the
\* position-count check; an unsafe cycle places no order.
RaceBotFetch ==
    /\ pc = "sync"
    /\ seen' = [seen EXCEPT !.bot = open_on_exchange]
    /\ pc' = IF check_position_count(Cardinality(open_on_exchange))
             THEN "execute" ELSE "final"
    /\ UNCHANGED << state, disk, now, today, dry_run, cycle, current_balance,
                    exchange_positions, todo, reasons, all_safe, scan_results,
                    outcome, log, orders, safety, result, prev_result,
                    interrupted, writers, api_pc, api_state, api_position,
                    api_calls, plan_orders, ops, last_op, prev_state, last_price,
                    balance_calls, call, held, stop_updates, stop_request,
                    kept_sl, open_on_exchange >>

\* run_cycle steps 6 to 8: a symbol that is not tracked after the
\* reconciliation is chosen and open_short is called; the exchange opens the
\* short or refuses the order.
RaceBotOrder ==
    /\ pc = "execute"
    /\ \E symbol \in RaceSymbols \ seen.bot, accepted \in BOOLEAN :
         open_on_exchange' = IF accepted THEN open_on_exchange \cup {symbol}
                             ELSE open_on_exchange
    /\ pc' = "final"
    /\ UNCHANGED << state, disk, now, today, dry_run, cycle, current_balance,
                    exchange_positions, todo, reasons, all_safe, scan_results,
                    outcome, log, orders, safety, result, prev_result,
                    interrupted, writers, api_pc, api_state, api_position,
                    api_calls, plan_orders, ops, last_op, prev_state, last_price,
                    balance_calls, call, held, stop_updates, stop_request,
                    kept_sl, seen >>

\* The cycle is over without an order: no candidate, no ticker, dry-run.
RaceBotSkip ==
    /\ pc = "execute"
    /\ pc' = "final"
    /\ UNCHANGED << state, disk, now, today, dry_run, cycle, current_balance,
                    exchange_positions, todo, reasons, all_safe, scan_results,
                    outcome, log, orders, safety, result, prev_result,
                    interrupted, writers, api_pc, api_state, api_position,
                    api_calls, plan_orders, ops, last_op, prev_state, last_price,
                    balance_calls, call, held, stop_updates, stop_request,
                    kept_sl, open_on_exchange, seen >>

\* The next cycle starts.
RaceBotWake ==
    /\ pc = "final"
    /\ cycle < MaxCycles
    /\ cycle' = cycle + 1
    /\ pc' = "sync"
    /\ UNCHANGED << state, disk, now, today, dry_run, current_balance,
                    exchange_positions, todo, reasons, all_safe, scan_results,
                    outcome, log, orders, safety, result, prev_result,
                    interrupted, writers, api_pc, api_state, api_position,
                    api_calls, plan_orders, ops, last_op, prev_state, last_price,
                    balance_calls, call, held, stop_updates, stop_request,
                    kept_sl, open_on_exchange, seen >>

\* api_short up to its checks: get_open_positions and the comparison of the
\* count with max_positions; at the limit the request is answered with an
\* error.
RaceApiFetch ==
    /\ api_pc = "idle"
    /\ api_calls < MaxApiCalls
    /\ seen' = [seen EXCEPT !.api = open_on_exchange]
    /\ IF Cardinality(open_on_exchange) >= MaxPositions
       THEN api_calls' = api_calls + 1 /\ api_pc' = "idle"
       ELSE api_calls' = api_calls /\ api_pc' = "counted"
    /\ UNCHANGED << pc, state, disk, now, today, dry_run, cycle, current_balance,
                    exchange_positions, todo, reasons, all_safe, scan_results,
                    outcome, log, orders, safety, result, prev_result,
                    interrupted, writers, api_state, api_position, plan_orders,
                    ops, last_op, prev_state, last_price, balance_calls, call,
                    held, stop_updates, stop_request, kept_sl, open_on_exchange >>

\* api_short from the symbol check on: a symbol without a position in what
\* was read, and open_short_tp_only; the exchange opens the short or refuses.
RaceApiOrder ==
    /\ api_pc = "counted"
    /\ \E symbol \in RaceSymbols \ seen.api, accepted \in BOOLEAN :
         open_on_exchange' = IF accepted THEN open_on_exchange \cup {symbol}
                             ELSE open_on_exchange
    /\ api_calls' = api_calls + 1
    /\ api_pc' = "idle"
    /\ UNCHANGED << pc, state, disk, now, today, dry_run, cycle, current_balance,
                    exchange_positions, todo, reasons, all_safe, scan_results,
                    outcome, log, orders, safety, result, prev_result,
                    interrupted, writers, api_state, api_position, plan_orders,
                    ops, last_op, prev_state, last_price, balance_calls, call,
                    held, stop_updates, stop_request, kept_sl, seen >>

\* A request for a symbol that has a position in what was read.
RaceApiReject ==
    /\ api_pc = "counted"
    /\ seen.api # {}
    /\ api_calls' = api_calls + 1
    /\ api_pc' = "idle"
    /\ UNCHANGED << pc, state, disk, now, today, dry_run, cycle, current_balance,
                    exchange_positions, todo, reasons, all_safe, scan_results,
                    outcome, log, orders, safety, result, prev_result,
                    interrupted, writers, api_state, api_position, plan_orders,
                    ops, last_op, prev_state, last_price, balance_calls, call,
                    held, stop_updates, stop_request, kept_sl, open_on_exchange,
                    seen >>

\* A short is closed on the exchange: its stop or its target was hit.
RaceClose ==
    /\ \E symbol \in open_on_exchange :
         open_on_exchange' = open_on_exchange \ {symbol}
    /\ Cardinality(open_on_exchange) > 1
    /\ UNCHANGED << pc, state, disk, now, today, dry_run, cycle, current_balance,
                    exchange_positions, todo, reasons, all_safe, scan_results,
                    outcome, log, orders, safety, result, prev_result,
                    interrupted, writers, api_pc, api_state, api_position,
                    api_calls, plan_orders, ops, last_op, prev_state, last_price,
                    balance_calls, call, held, stop_updates, stop_request,
                    kept_sl, seen >>

NextRace ==
    \/ RaceBotFetch \/ RaceBotOrder \/ RaceBotSkip \/ RaceBotWake
    \/ RaceApiFetch \/ RaceApiOrder \/ RaceApiReject \/ RaceClose

SpecRace == InitRace /\ [][NextRace]_vars
\* ================================================================ claims
SlOf(st, s) == st.positions[s].current_sl

\* st with its last_cycle_time blanked.
Unstamped(st) == [st EXCEPT !.last_cycle_time = 0]

\* C1: once sync_positions_with_exchange has returned (the cycle is at its
\* trailing step), the symbols tracked in state["positions"] are exactly the
\* symbols the snapshot reports as open shorts.
SyncTracksExactlyTheShorts ==
    pc = "trail" => Tracked(state) = Shorts(exchange_positions)

\* C1 witness: a second cycle's sync has dropped a position that an earlier
\* order had added and tracks an adopted short instead.
SyncDroppedAndAdopted ==
    /\ pc = "trail"
    /\ cycle = 2
    /\ state.total_trades = 1
    /\ \E s \in Symbols :
         /\ Tracked(state) = {s}
         /\ state.positions[s].order_id = "unknown"

\* C2: every change the trailing step of a cycle makes to a current_sl
\* lowers it: no step of manage_trailing_stops leaves a current_sl higher
\* than it found it.
TrailingNeverLoosens ==
    [][(pc = "trail" /\ pc' = "trail")
         => \A s \in Tracked(state) : SlOf(state', s) <= SlOf(state, s)]_vars

PositionOrdered(p) ==
    p.stop_loss >= p.entry_price /\ p.entry_price >= p.take_profit

\* C3: every position held in state["positions"], in the bot's dict and in
\* state.json (where the manual-order endpoint puts its positions), has
\* stop_loss >= entry_price >= take_profit.
PositionsOrdered ==
    /\ \A s \in Tracked(state) : PositionOrdered(state.positions[s])
    /\ \A s \in Tracked(disk.content) : PositionOrdered(disk.content.positions[s])

\* The steps a cycle has logged when it returns normally: with the scan, or
\* with the ticker fetch of the scan failing.
FullCycleLog ==
    << "balance", "sync", "trail", "checks", "scan", "execute", "save", "report" >>

ScanFailedLog ==
    << "balance", "sync", "trail", "checks", "scan failed", "save", "report" >>

\* C4: in a cycle whose safety checks failed or whose balance is not
\* positive, open_short is never called and no position is added; and when
\* the cycle returns it has done trailing-stop maintenance, the scan (as far
\* as the ticker fetch lets any cycle go), the save and the report.
UnsafeCycleTradesNothing ==
    safety = "unsafe" =>
        /\ orders = 0
        /\ outcome \notin {"Opened SHORT", "Failed to open short"}
        /\ result = "normal" => log \in {FullCycleLog, ScanFailedLog}

\* C4 witness: an unsafe cycle with positions to maintain has returned after
\* all of its steps.
UnsafeCycleCompleted ==
    /\ safety = "unsafe"
    /\ result = "normal"
    /\ log = FullCycleLog
    /\ pc = "between"
    /\ Tracked(state) # {}

\* C5 as stated: the second of two runs of sync_positions_with_exchange with
\* the same snapshot and plan orders leaves the state as it found it.
SyncAgainChangesNothing ==
    last_op = "sync again" => state = prev_state

\* C5 amended: the second run changes nothing but last_cycle_time, which
\* save_state stamps on every run.
SyncAgainKeepsAllButStamp ==
    last_op = "sync again" => Unstamped(state) = Unstamped(prev_state)

\* C5 witness: a second run over a position whose stop-loss came from a plan
\* order or an earlier snapshot, the second run having re-stamped the state.
SyncAgainOverBackfilled ==
    /\ last_op = "sync again"
    /\ state.last_cycle_time # prev_state.last_cycle_time
    /\ \E s \in Tracked(state) :
         /\ state.positions[s].stop_loss # 0
         /\ exchange_positions[s].stop_loss = 0

\* C6: a trailing-stop call made again at the price of the last applied call
\* leaves current_sl as it is, and a call at a higher price than the last
\* call's never raises current_sl.
TrailIdempotentAndMonotone ==
    [][(last_op' = "trail" /\ ops' = ops + 1) =>
         \A s \in Tracked(state) :
           /\ (last_price[s].applied /\ last_price'[s].price = last_price[s].price)
                => SlOf(state', s) = SlOf(state, s)
           /\ (last_price[s].price # 0 /\ last_price'[s].price > last_price[s].price)
                => SlOf(state', s) <= SlOf(state, s)]_vars

\* C7: when a cycle has finished and while the bot is between cycles,
\* state.json holds the bot's state dict.
PersistedEqualsMemory ==
    (pc \in {"between", "sleep"} /\ "bot" \in writers) => disk = FileOf(state)

\* C8: the cycle loop is the only writer of state.json.
OnlyTheLoopWrites ==
    writers \subseteq {"bot"}

\* C9: once a KeyboardInterrupt has arrived inside run_cycle or inside
\* time.sleep, the state dict is in state.json, the loop has been left and
\* nothing more happens.
InterruptSavesAndStops ==
    interrupted \in {"cycle", "sleep"} =>
        /\ pc = "stopped"
        /\ disk = FileOf(state)
        /\ ~ENABLED Next

\* C9 witness: the interrupt came in the first cycle, after the balance step
\* had set start_balance and before anything had saved it.
InterruptedBeforeSave ==
    /\ interrupted = "cycle"
    /\ cycle = 1
    /\ state.start_balance > 0
    /\ log = << "balance" >>

\* C10: after an exception inside run_cycle the process is alive at the
\* bottom of the loop, about to sleep or sleeping, and the next cycle can
\* start when the sleep is over; only an operator interrupt ends it.
ExceptionKeepsLoopGoing ==
    result = "exception" =>
        \/ pc = "between" /\ ENABLED StepSleep
        \/ pc = "sleep" /\ (cycle < MaxCycles => ENABLED StepWake)
        \/ pc = "stopped" /\ interrupted = "sleep"
        \/ pc = "killed" /\ interrupted = "between"

\* C10 witness: the cycle after one that ended with an exception has started.
CycleAfterException ==
    /\ prev_result = "exception"
    /\ pc = "balance"
    /\ cycle = 2

\* C11: when a cycle is over, however it ended, its last step was the report.
EveryCycleReports ==
    (pc \in {"between", "sleep"} /\ result # "running") =>
        (Len(log) > 0 /\ log[Len(log)] = "report")

\* C12: in the steps of a cycle that follow the balance step, the state's
\* day is the current UTC day: the day's counters were reset and the start
\* balance set anew when the day changed.
DayRolledOver ==
    pc \in InCycle \ {"balance"} => state.day_start_utc = today

\* The checks whose result is in the cycle's list of reasons.
ChecksRun == {reasons[i].check : i \in 1..Len(reasons)}

\* C13: once the safety step of a cycle is over, the list of reasons holds the
\* result of each of the four checks.
AllFourChecksRun ==
    pc \in {"scan", "execute", "final"} =>
        ChecksRun = {"daily_loss", "btc_trend", "news_blackout", "position_count"}

\* C14: check_daily_loss passes exactly when the start balance is positive
\* and the balance is above (100 - limit) percent of it.
DailyLossFailsExactly ==
    call.fn = "check_daily_loss" =>
        LET start_balance == call.args[1]
            balance == call.args[2]
        IN  call.out[1] = (/\ start_balance > 0
                           /\ balance * 100 > start_balance * (100 - DailyLossLimitPct))

\* C14 witness: a loss of exactly the limit has been found unsafe.
LossAtTheLimitFails ==
    /\ call.fn = "check_daily_loss"
    /\ call.args = << 10000, 9500 >>
    /\ call.out = << FALSE >>

\* C15: calculate_position_size gives 0 when no slot is free; otherwise the
\* cent nearest to balance * position_size_pct / 100 / max_positions, the same
\* for however many slots are free; 1000.00 with 4 open of 5 at 50% is 100.00.
PositionSizeAsSpecified ==
    call.fn = "calculate_position_size" =>
        LET balance == call.args[1]
            open_positions == call.args[2]
            max_positions == call.args[3]
            pct == call.args[4]
            margin == call.out[1]
            off == margin * 100 * max_positions - balance * pct
        IN  /\ open_positions >= max_positions => margin = 0
            /\ open_positions < max_positions =>
                  /\ 2 * off <= 100 * max_positions
                  /\ -2 * off <= 100 * max_positions
                  /\ margin = position_size(balance, 0, max_positions, pct)
            /\ call.args = << 100000, 4, 5, 50 >> => margin = 10000

\* C15 witness: the example of the specification has been computed.
PositionSizeExample ==
    /\ call.fn = "calculate_position_size"
    /\ call.args = << 100000, 4, 5, 50 >>
    /\ call.out = << 10000 >>

\* C16: for every positive entry price and non-negative ATR, the stop that
\* calculate_sl_tp returns is at or above the entry price and the target at
\* or below it.
SlTpBracketEntry ==
    call.fn = "calculate_sl_tp" =>
        /\ call.out[1] >= call.args[1]
        /\ call.out[2] <= call.args[1]

\* C17: a cycle that passed its safety checks, found a candidate, got its
\* ticker and had its order accepted ends step 8 with a short opened on the
\* top-ranked symbol, with the margin balance * position_size_pct / 100 /
\* max_positions, tracked with current_sl equal to its stop_loss.
ScenarioOpensTopRanked ==
    (/\ pc = "final"
     /\ all_safe
     /\ candidates # << >>
     /\ outcome \notin {"Could not fetch ticker", "Failed to open short",
                        "Position size is zero, skipping"}) =>
        LET best == candidates[1]
            tracked == state.positions[best.symbol]
        IN  /\ outcome = "Opened SHORT"
            /\ \A i \in 1..Len(scan_results) : RankedBefore(best, scan_results[i])
            /\ best.symbol \in Tracked(state)
            /\ tracked.margin_usdt =
                  RoundTo(current_balance * PositionSizePct, 100 * MaxPositions, 1)
            /\ tracked.margin_usdt > 0
            /\ tracked.current_sl = tracked.stop_loss
            /\ tracked.current_sl > 0
            /\ orders = IF dry_run THEN 0 ELSE 1

\* C17 witness: with no open position on the exchange and two symbols
\* scanned, a live order has been accepted.
ScenarioOrderAccepted ==
    /\ pc = "final"
    /\ outcome = "Opened SHORT"
    /\ ~dry_run
    /\ Shorts(exchange_positions) = {}
    /\ Len(scan_results) = 2
    /\ orders = 1

IsPrefix(s, t) ==
    /\ Len(s) <= Len(t)
    /\ \A i \in 1..Len(s) : s[i] = t[i]

\* C18: the steps a cycle has completed are a beginning of the fixed order
\* (or of the order with the failed ticker fetch); trailing-stop maintenance
\* runs right after reconciliation; an order is placed only after balance,
\* reconciliation, trailing, checks and scan; and after a failed ticker fetch
\* the cycle is at its final save and report with no order placed.
StepsInFixedOrder ==
    /\ IsPrefix(log, FullCycleLog) \/ IsPrefix(log, ScanFailedLog)
    /\ pc = "trail" => log = << "balance", "sync" >>
    /\ orders > 0 =>
          IsPrefix(<< "balance", "sync", "trail", "checks", "scan", "execute" >>, log)
    /\ (Len(log) >= 5 /\ log[5] = "scan failed") =>
          /\ orders = 0
          /\ pc \in InCycle => (pc = "final" /\ outcome = "Error fetching tickers")

\* C18 witness: a cycle that was safe to trade has ended after a failed
\* ticker fetch.
ScanFailedCycleCompleted ==
    /\ pc = "between"
    /\ safety = "safe"
    /\ log = ScanFailedLog

\* C19: a first balance read that is positive is the only call of the
\* cycle's balance step; one that is zero (a failed read gives zero) is
\* followed by a market reload and then by exactly one more read.
BalanceRetriedExactlyOnce ==
    /\ Len(balance_calls) <= 3
    /\ balance_calls # << >> =>
          LET first == balance_calls[1]
          IN  /\ first.call = "get_balance"
              /\ first.value > 0 => balance_calls = << first >>
              /\ first.value <= 0 =>
                    /\ Len(balance_calls) = 3
                    /\ balance_calls[2] = MarketReload
                    /\ balance_calls[3].call = "get_balance"

\* C20: open_short is called at most once in a cycle, and the step in which
\* it returns no position records the failure and leaves the state dict and
\* state.json as they were.
FailedOrderChangesNothing ==
    [][/\ orders' <= 1
       /\ (pc = "execute" /\ outcome' = "Failed to open short") =>
             /\ orders' = 1
             /\ state' = state
             /\ disk' = disk
             /\ pc' = "final"]_vars

\* C20 witness: an order has failed in a cycle that tracks a position.
OrderFailedWithPositions ==
    /\ pc = "final"
    /\ outcome = "Failed to open short"
    /\ orders = 1
    /\ Tracked(state) # {}

\* C21: the symbol step 8 goes on with is a scanned symbol with at least
\* min_signals signals that no other such symbol outranks (more signals, or
\* as many and a higher RSI), whatever length the sorted list was cut to; it
\* is none only when no scanned symbol has min_signals signals.
WinnerIsTopQualifying ==
    call.fn = "select" =>
        LET analysis == call.args[1]
            winner == call.out[2]
            qualifying == {s \in DOMAIN analysis :
                             analysis[s].signal_count >= MinSignals}
        IN  /\ (winner = "none") = (qualifying = {})
            /\ winner # "none" =>
                  /\ winner \in qualifying
                  /\ \A q \in qualifying :
                        \/ analysis[winner].signal_count > analysis[q].signal_count
                        \/ /\ analysis[winner].signal_count = analysis[q].signal_count
                           /\ analysis[winner].rsi >= analysis[q].rsi

\* C21 witness: the cut has removed qualifying symbols and a winner is left.
CutRemovedQualifying ==
    /\ call.fn = "select"
    /\ call.args[2] = 1
    /\ Len(call.out[1]) = 1
    /\ \A s \in RankSymbols :
          s \in DOMAIN call.args[1] /\ call.args[1][s].signal_count >= MinSignals
    /\ call.out[2] # "none"

Count(fired) == IF fired THEN 1 ELSE 0

\* C23: the volume strategy reports 3 signals when the EMA crossover fired
\* with fewer than 3 signals present, and otherwise the number of signals
\* that fired among RSI > 65, EMA crossover, volume spike and funding >
\* 0.0001; the classic strategy always reports the number that fired among
\* RSI > 70, EMA crossover, MACD crossover and funding > 0.0001.
SignalCountAsSpecified ==
    call.fn = "analyze" =>
        LET rsi == call.args[1]
            ema_cross == call.args[2]
            macd_cross == call.args[3]
            volume_spike == call.args[4]
            funding == call.args[5] # NoFunding /\ call.args[5] > FundingLimit
            classic == Count(rsi > RsiClassicLimit) + Count(ema_cross)
                       + Count(macd_cross) + Count(funding)
            volume == Count(rsi > RsiVolumeLimit) + Count(ema_cross)
                      + Count(volume_spike) + Count(funding)
        IN  /\ call.out[1].signal_count = classic
            /\ Cardinality(call.out[1].signals) = classic
            /\ call.out[2].signal_count =
                  IF ema_cross /\ volume < 3 THEN 3 ELSE volume
            /\ Cardinality(call.out[2].signals) = volume

\* C23 witness: an EMA crossover and nothing else has been analysed.
EmaCrossAlone ==
    /\ call.fn = "analyze"
    /\ call.args = << 50, TRUE, FALSE, FALSE, 0 >>
    /\ call.out[1].signal_count = 1
    /\ call.out[2].signals = {"EMA_CROSS"}
    /\ call.out[2].signal_count = 3

\* C24: when the first series was at or above the second two bars before the
\* last and below it one bar before the last, the bearish cross is reported
\* both from the series up to the bar before the last and from the whole
\* series, whatever the last bar holds.  Both evaluations see the three bars
\* the functions require.
CrossSurvivesOneBar ==
    call.fn \in {"calculate_ema_cross", "calculate_macd_cross"} =>
        LET first == call.args[1]
            second == call.args[2]
            t == Len(first)
        IN  (/\ t - 1 >= MinCrossBars
             /\ first[t - 2] >= second[t - 2]
             /\ first[t - 1] < second[t - 1]) =>
                (call.out[1] /\ call.out[2])

\* C24 witness: the fast EMA crossed below the slow one at the bar before the
\* last and is above it again at the last bar.
CrossedThenRecovered ==
    /\ call.fn = "calculate_ema_cross"
    /\ Len(call.args[1]) = 4
    /\ call.args[1][2] >= call.args[2][2]
    /\ call.args[1][3] < call.args[2][3]
    /\ call.args[1][4] > call.args[2][4]
    /\ call.out = << TRUE, TRUE >>

\* C22: no symbol tracked after reconciliation is among the scan results, and
\* an order is never placed on a symbol on which a short was open on the
\* exchange when the cycle fetched the positions.
HeldSymbolNeverOrdered ==
    /\ pc = "execute" =>
          \A i \in 1..Len(scan_results) : scan_results[i].symbol \notin Tracked(state)
    /\ (pc = "final" /\ orders > 0 /\ outcome = "Opened SHORT") =>
          candidates[1].symbol \notin held

\* C25: with dry_run set, no open_short and no update_stop_loss request is
\* sent to the exchange.
DryRunSendsNothing ==
    dry_run => (orders = 0 /\ stop_updates = 0)

\* C26: for the same balance, number of open positions and prices, the manual
\* order has the margin, the stop-loss and the take-profit of the cycle's
\* order, and a stop-loss is set.
ManualOrderAsAutomatic ==
    call.fn = "orders" =>
        /\ call.out[1].margin_usdt = call.out[2].margin_usdt
        /\ call.out[1].stop_loss = call.out[2].stop_loss
        /\ call.out[1].stop_loss # 0
        /\ call.out[1].take_profit = call.out[2].take_profit

\* C27: a reconciliation that removes positions the exchange no longer
\* reports leaves daily_pnl, total_pnl, total_wins, total_losses,
\* total_trades and trades_today as they were, removes those positions, and
\* keeps every other tracked position: its order, entry price and margin
\* always, and all of it when its take-profit and stop-loss were set.
RemovalLeavesCountersAndOthers ==
    [][(pc = "sync" /\ pc' = "trail") =>
         LET closed == Tracked(state) \ Shorts(exchange_positions')
             kept == Tracked(state) \cap Shorts(exchange_positions')
         IN  closed # {} =>
               /\ state'.daily_pnl = state.daily_pnl
               /\ state'.total_pnl = state.total_pnl
               /\ state'.total_wins = state.total_wins
               /\ state'.total_losses = state.total_losses
               /\ state'.total_trades = state.total_trades
               /\ state'.trades_today = state.trades_today
               /\ closed \cap Tracked(state') = {}
               /\ \A s \in kept :
                    /\ state'.positions[s].order_id = state.positions[s].order_id
                    /\ state'.positions[s].entry_price = state.positions[s].entry_price
                    /\ state'.positions[s].margin_usdt = state.positions[s].margin_usdt
                    /\ (state.positions[s].take_profit # 0
                        /\ state.positions[s].stop_loss # 0)
                         => state'.positions[s] = state.positions[s]]_vars

\* C27 witness: the second cycle's reconciliation has removed the position
\* the first cycle's order had added, the counters still showing that trade,
\* and tracks the exchange's other short.
RemovedOneKeptOne ==
    /\ pc = "trail"
    /\ cycle = 2
    /\ state.total_trades = 1
    /\ state.trades_today = 1
    /\ state.total_losses = 0
    /\ \E s \in Symbols :
         /\ Tracked(state) = {s}
         /\ state.positions[s].order_id = "unknown"
         /\ Shorts(exchange_positions) = {s}
         /\ held = {s}

\* C28: an adopted short has the take-profit and the stop-loss of the
\* exchange's position where these are set and those of the pending plan
\* orders where they are not; the plan orders are queried exactly when one of
\* the two is unset in the position, and have no effect otherwise; current_sl
\* is the adopted stop_loss.
AdoptTakesFieldsFirst ==
    call.fn = "adopt" =>
        LET pos == call.args[1]
            plan == call.args[2]
            adopted == call.out[1]
            queried == call.out[2]
        IN  /\ adopted.take_profit =
                  IF pos.take_profit # 0 THEN pos.take_profit ELSE plan.tp
            /\ adopted.stop_loss =
                  IF pos.stop_loss # 0 THEN pos.stop_loss ELSE plan.sl
            /\ queried = (pos.take_profit = 0 \/ pos.stop_loss = 0)
            /\ ~queried => adopted = AdoptPosition(pos, NoPlan)
            /\ adopted.current_sl = adopted.stop_loss
            /\ adopted.entry_price = pos.entry_price
            /\ adopted.margin_usdt = pos.margin

\* C28 witness: the position reports a take-profit and no stop-loss, and plan
\* orders for both are pending.
AdoptedFromBoth ==
    /\ call.fn = "adopt"
    /\ call.args[1].take_profit = 950
    /\ call.args[1].stop_loss = 0
    /\ call.args[2] = [tp |-> 940, sl |-> 1030]
    /\ call.out[1].take_profit = 950
    /\ call.out[1].stop_loss = 1030
    /\ call.out[1].current_sl = 1030

\* C29: the backfill of a position tracked and reported leaves a take_profit,
\* stop_loss or current_sl that is set as it is, changes no other field, and
\* leaves a position with both take_profit and stop_loss set as it is.
BackfillKeepsKnownValues ==
    call.fn = "backfill" =>
        LET tracked == call.args[1]
            after == call.out[1]
        IN  /\ tracked.take_profit # 0 => after.take_profit = tracked.take_profit
            /\ tracked.stop_loss # 0 => after.stop_loss = tracked.stop_loss
            /\ tracked.current_sl # 0 => after.current_sl = tracked.current_sl
            /\ after.order_id = tracked.order_id
            /\ after.entry_price = tracked.entry_price
            /\ after.margin_usdt = tracked.margin_usdt
            /\ (tracked.take_profit # 0 /\ tracked.stop_loss # 0) => after = tracked

\* C29 witness: a position with a take-profit and no stop-loss has been
\* backfilled while the exchange reported another take-profit.
BackfilledBesideKnownTarget ==
    /\ call.fn = "backfill"
    /\ call.args[1].take_profit = 960
    /\ call.args[1].stop_loss = 0
    /\ call.args[2].take_profit = 950
    /\ call.args[2].stop_loss = 1020
    /\ call.out[1].take_profit = 960
    /\ call.out[1].stop_loss = 1020

\* C30: after the backfill, an unset take_profit or stop_loss for which the
\* position or a pending plan order gave a value is set (to the position's
\* value if there is one), current_sl is set with the stop_loss when it was
\* unset, and a field is still unset only when neither gave a value.
BackfillFillsWhatIsSupplied ==
    call.fn = "backfill" =>
        LET tracked == call.args[1]
            pos == call.args[2]
            plan == call.args[3]
            after == call.out[1]
            tp_supplied == IF pos.take_profit # 0 THEN pos.take_profit ELSE plan.tp
            sl_supplied == IF pos.stop_loss # 0 THEN pos.stop_loss ELSE plan.sl
        IN  /\ tracked.take_profit = 0 => after.take_profit = tp_supplied
            /\ tracked.stop_loss = 0 => after.stop_loss = sl_supplied
            /\ (tracked.stop_loss = 0 /\ sl_supplied # 0 /\ tracked.current_sl = 0)
                 => after.current_sl = sl_supplied

\* C30 witness: a position without take-profit and stop-loss, which the
\* snapshot does not report either, has got both from the plan orders.
BackfilledFromPlans ==
    /\ call.fn = "backfill"
    /\ call.args[1].take_profit = 0
    /\ call.args[1].stop_loss = 0
    /\ call.args[1].current_sl = 0
    /\ call.args[2].take_profit = 0
    /\ call.args[2].stop_loss = 0
    /\ call.out[1].take_profit = 940
    /\ call.out[1].stop_loss = 1030
    /\ call.out[1].current_sl = 1030

\* C31: a pass of the trailing loop changes a current_sl only when it called
\* update_stop_loss for that symbol and the call returned success, and then
\* state.json holds the new value when the pass is over; after a call that
\* failed the state dict and state.json are as before and the loop goes on
\* with the positions that are left.
StopRecordedOnlyWhenConfirmed ==
    [][(pc = "trail" /\ pc' = "trail") =>
         /\ \A s \in Tracked(state) :
              SlOf(state', s) # SlOf(state, s) =>
                /\ stop_request' = [symbol |-> s, price |-> SlOf(state', s),
                                    success |-> TRUE]
                /\ disk' = FileOf(state')
         /\ (stop_request'.symbol # "none" /\ stop_request'.success) =>
              /\ SlOf(state', stop_request'.symbol) = stop_request'.price
              /\ disk' = FileOf(state')
         /\ (stop_request'.symbol # "none" /\ ~stop_request'.success) =>
              /\ state' = state
              /\ disk' = disk
              /\ todo' = todo \ {stop_request'.symbol}]_vars

\* C31 witness: the update of one position failed and its current_sl is as
\* adopted; the loop went on and the update of the other position succeeded.
FailedUpdateThenConfirmed ==
    /\ pc = "trail"
    /\ stop_updates = 2
    /\ stop_request = [symbol |-> "BBB", price |-> 960, success |-> TRUE]
    /\ state.positions["BBB"].current_sl = 960
    /\ state.positions["AAA"].current_sl = 1020
    /\ disk = FileOf(state)

\* C32: every call of update_stop_loss a pass of the trailing loop makes
\* carries a price strictly below the current_sl recorded for the symbol
\* when the pass began.
RequestedStopStrictlyLower ==
    [][(pc = "trail" /\ pc' = "trail" /\ stop_request'.symbol # "none") =>
         stop_request'.price < SlOf(state, stop_request'.symbol)]_vars

\* C33: calculate_trailing_stop returns None when profit_pct is below
\* trailing_start_pct; otherwise its candidate is the entry price when
\* profit_pct - trailing_distance_pct is not positive and
\* entry * (1 - (profit_pct - trailing_distance_pct) / 100) when it is, and
\* it returns the candidate, at 8 decimals, exactly when the candidate is
\* strictly below current_sl.
TrailingStopAsSpecified ==
    call.fn = "calculate_trailing_stop" =>
        LET entry == call.args[1]
            current == call.args[2]
            current_sl == call.args[3]
            start_pct == call.args[4]
            distance_pct == call.args[5]
            returned == call.out[1]
            \* profit_pct, locked_pct and the candidate, each times 100 * entry,
            \* entry and 100
            profit == (entry - current) * 100
            locked == profit - distance_pct * entry
            candidate == IF locked <= 0 THEN entry * 100 ELSE entry * 100 - locked
        IN  /\ profit < start_pct * entry => returned = NoUpdate
            /\ profit >= start_pct * entry =>
                 /\ (returned # NoUpdate) <=> (candidate < current_sl * 100)
                 /\ returned # NoUpdate =>
                      /\ returned % Quantum = 0
                      /\ 2 * (returned * 100 - candidate) <= 100 * Quantum
                      /\ 2 * (candidate - returned * 100) <= 100 * Quantum

\* C33 witness: with a profit of 4% and a trailing distance of 5% the
\* breakeven stop has been returned.
BreakevenReturned ==
    /\ call.fn = "calculate_trailing_stop"
    /\ call.args = << 1000, 960, 1020, 3, 5 >>
    /\ call.out = << 1000 >>

\* C38: with both percentages positive, a stop calculate_trailing_stop
\* returns is strictly above the current price it was computed from and not
\* above the entry price.
TrailingStopBetweenPriceAndEntry ==
    (call.fn = "calculate_trailing_stop" /\ call.args[4] > 0 /\ call.args[5] > 0
       /\ call.out[1] # NoUpdate) =>
        /\ call.out[1] > call.args[2]
        /\ call.out[1] <= call.args[1]

\* C34: in every cycle open_short has been called at most once, and the
\* positions added by step 8 since the process started are at most one for
\* each cycle that has reached step 8.
OneOrderAndOnePositionPerCycle ==
    /\ orders <= 1
    /\ state.total_trades <= cycle
    /\ pc \in {"balance", "sync", "trail", "scan", "execute"}
         => state.total_trades <= cycle - 1

\* C34 witness: the second cycle has placed its order, the first cycle
\* having placed one too.
OrderInEachCycle ==
    /\ pc = "final"
    /\ cycle = 2
    /\ orders = 1
    /\ outcome = "Opened SHORT"
    /\ state.total_trades = 2

\* C35: while a short stays open on the exchange, the current_sl tracked for
\* it after an operation is not above the last current_sl tracked for it
\* before, also when an empty snapshot made reconciliation drop the position
\* in between.
TrackedStopNeverRises ==
    [][\A s \in Symbols :
         (kept_sl[s] > 0 /\ s \in held' /\ s \in Tracked(state'))
            => SlOf(state', s) <= kept_sl[s]]_vars

\* C36: the shorts open on the exchange are never more than max_positions,
\* however the steps of a cycle and of a manual request follow each other.
OpenPositionsWithinLimit ==
    Cardinality(open_on_exchange) <= MaxPositions

\* C37: once the manual-order endpoint has written state.json, a save of the
\* bot lowers neither trades_today nor total_trades in the file, and a save
\* outside the reconciliation leaves every position of the file in it, with
\* its order id.
ManualUpdatesSurviveBotSaves ==
    [][("api" \in writers /\ api_pc # "loaded" /\ disk' # disk) =>
         /\ disk'.content.total_trades >= disk.content.total_trades
         /\ disk'.content.trades_today >= disk.content.trades_today
         /\ pc # "sync" =>
              \A s \in Tracked(disk.content) :
                 /\ s \in Tracked(disk'.content)
                 /\ disk'.content.positions[s].order_id
                      = disk.content.positions[s].order_id]_vars

\* C39: a pass of the trailing loop over a tracked position whose
\* entry_price or current_sl is unset calls update_stop_loss for nothing and
\* leaves the state dict and state.json as they are; a current_sl that was
\* unset is set only by the reconciliation, with the stop-loss it backfills.
UnsetStopSkippedByTrailing ==
    [][/\ (pc = "trail" /\ pc' = "trail") =>
            \A s \in todo \ todo' :
               (s \in Tracked(state)
                  /\ (state.positions[s].entry_price <= 0 \/ SlOf(state, s) <= 0))
                 => /\ stop_request' = NoRequest
                    /\ stop_updates' = stop_updates
                    /\ state' = state
                    /\ disk' = disk
       /\ \A s \in Tracked(state) \cap Tracked(state') :
            (SlOf(state, s) <= 0 /\ SlOf(state', s) > 0) =>
               /\ pc = "sync"
               /\ state.positions[s].stop_loss <= 0
               /\ state'.positions[s].stop_loss = SlOf(state', s)]_vars

\* C39 witness: the trailing loop of the second cycle is through; it has
\* passed over an adopted short that has an entry price and no current_sl,
\* and no update was requested.
UnsetStopPassedOver ==
    /\ pc = "trail"
    /\ cycle = 2
    /\ state.total_trades = 0
    /\ "AAA" \in Tracked(state)
    /\ state.positions["AAA"].entry_price = 1000
    /\ state.positions["AAA"].current_sl = 0
    /\ exchange_positions["AAA"].side = "short"
    /\ todo = {}
    /\ stop_updates = 0

\* C40: when the BTC ticker could not be fetched the 24h change is 0, the
\* BTC trend check passes, and the checks as a whole pass exactly when the
\* news-blackout and the position-count checks pass.
BtcReadFailurePasses ==
    (call.fn = "run_all_checks" /\ ~call.args[1].fetched) =>
        /\ call.out[1] = 0
        /\ call.out[2][1] = [check |-> "btc_trend", passed |-> TRUE]
        /\ call.out[3] = (~call.args[2] /\ call.args[3] < MaxPositions)

\* C40 witness: the checks have passed without a BTC ticker.
SafeWithoutBtcTicker ==
    /\ call.fn = "run_all_checks"
    /\ call.args = << NoBtcTicker, FALSE, 0 >>
    /\ call.out[3]
====
